---- MODULE Spec2Model ----
(***************************************************************************)
(* A model of the KYB risk tool's core: the OFAC sanctions screening       *)
(* engine (backend/scrapers/ofac_sanctions_scraper.py) and the scraper     *)
(* coordinator (backend/utils/scraper_coordinator.py).                     *)
(*                                                                         *)
(* Three state machines share the module, each with its own                *)
(* specification; the variables of the other two stay at their initial     *)
(* value:                                                                  *)
(*   SpecRisk  - _screen_entity's result lists and the risk level          *)
(*   SpecOfac  - one OFACSanctionsChecker: cache, clock, screening calls   *)
(*   SpecCoord - EnhancedScraperCoordinator.coordinate_full_assessment     *)
(*               with its thread pool                                      *)
(* Names are sequences of one-character strings, so that lower(), strip(), *)
(* split() and the substring test are computed, not assumed.               *)
(***************************************************************************)
EXTENDS Integers, Sequences, FiniteSets, TLC

VARIABLES
  \* ---- SpecRisk: the lists _screen_entity builds
  screening_results,  \* exact/partial/domain/fuzzy lists, total_matches, risk_level
  prev_risk_level,    \* risk_level before the last list extension (history)
  last_added,         \* which list the last step extended (history)
  \* ---- SpecOfac: one OFACSanctionsChecker instance and its environment
  cached_data,        \* self.cached_data: None or the cached dataset
  cache_timestamp,    \* self.cache_timestamp: None or the time of the last store
  now,                \* time.time(), in units of 8 hours
  last_call,          \* what the last check_company_sanctions call did and returned
  \* ---- SpecCoord: one coordinate_full_assessment run
  industry_category,  \* the run's industry_category argument
  pc,                 \* where the orchestrating thread is
  tier_idx,           \* index into execution_order of the current priority level
  tasks,              \* the futures of the current execute_scraper_group call
  group_results,      \* execute_scraper_group's local dict
  all_results,        \* coordinate_full_assessment's dict (scraper keys only)
  faults,             \* how many probe misbehaviours the run has seen (bounded)
  started,            \* <<tier, position>> of every probe a worker has started (history)
  recorded,           \* <<tier, position>> of every probe whose result was stored (history)
  \* ---- SpecMatch: one _screen_entity call
  screen_input,       \* None or the call's company_name, domain and ofac_data
  screen_output,      \* None or the screening_results the call returned
  \* ---- SpecValidator: one DataValidator.cross_validate_data call
  scraped_data,       \* the argument: the (source, data) items in the dict's order
  cv_pc,              \* where the call is: idle, loop, returned or raised
  next_item,          \* the item the for loop visits next
  source_validations, \* source -> verdict of validate_scraped_data_structure
  total_confidence,   \* sum of the valid verdicts' confidence (hundredths)
  valid_sources,      \* number of valid verdicts
  validation_summary, \* None or the returned summary
  \* ---- SpecRetry, SpecHistory: one KYBErrorHandler instance
  error_counts,       \* self.error_counts: component -> error class -> count
  error_history,      \* self.error_history: the tracked errors, oldest first
  handler_clock,      \* how many calls the handler has served; datetime.now()
  handler_response,   \* None or what the last call returned
  handled,            \* every error tracked since the last reset (history)
  \* ---- SpecEntry: calls of the module function check_ofac_sanctions
  entry_calls,        \* what each call so far did and returned (history)
  \* ---- SpecRoutes: the assessment endpoints and their background tasks
  assessment_progress, \* the module's dict: assessment id -> progress entry
  background_tasks,   \* assessment id -> the task added for it and where it is
  route_response,     \* what the result request of the last step returned,
                      \* None after any other step
  enhanced_available, \* ENHANCED_AVAILABLE
  standard_available, \* STANDARD_AVAILABLE
  last_writer,        \* the task that took the last step, None after a request
  \* ---- SpecCollect: one call of collect_amazing_data
  collection,         \* the local dict scraped_data of collect_amazing_data
  collect_pc,         \* "start", "scrapers" or "returned"
  collect_returned,   \* None or the value returned
  scrapers_available, \* SCRAPERS_AVAILABLE
  ofac_available      \* OFAC_AVAILABLE

\* Python's None and the values that may stand where None may: None is the
\* empty tuple, a value x that is present is <<x>>.
None == <<>>

Some(x) == <<x>>

Get(opt) == opt[1]

\* ------------------------------------------------------------------------
\* Strings: a str is a sequence of one-character strings.
\* ------------------------------------------------------------------------

\* str.lower() as a table: the lower-case letter of every upper-case letter
LowerChars ==
  [A |-> "a", B |-> "b", C |-> "c", D |-> "d", E |-> "e", F |-> "f",
   G |-> "g", H |-> "h", I |-> "i", J |-> "j", K |-> "k", L |-> "l",
   M |-> "m", N |-> "n", O |-> "o", P |-> "p", Q |-> "q", R |-> "r",
   S |-> "s", T |-> "t", U |-> "u", V |-> "v", W |-> "w", X |-> "x",
   Y |-> "y", Z |-> "z"]

\* str.upper() as a table: the upper-case letter of every lower-case letter
UpperChars ==
  [a |-> "A", b |-> "B", c |-> "C", d |-> "D", e |-> "E", f |-> "F",
   g |-> "G", h |-> "H", i |-> "I", j |-> "J", k |-> "K", l |-> "L",
   m |-> "M", n |-> "N", o |-> "O", p |-> "P", q |-> "Q", r |-> "R",
   s |-> "S", t |-> "T", u |-> "U", v |-> "V", w |-> "W", x |-> "X",
   y |-> "Y", z |-> "Z"]

\* str.lower() on one character
LowerChar(c) == IF c \in DOMAIN LowerChars THEN LowerChars[c] ELSE c

\* str.upper() on one character
UpperChar(c) == IF c \in DOMAIN UpperChars THEN UpperChars[c] ELSE c

Lower(s) == [i \in 1..Len(s) |-> LowerChar(s[i])]

Upper(s) == [i \in 1..Len(s) |-> UpperChar(s[i])]

\* str.capitalize(): first character upper-cased, the rest lower-cased
Capitalize(s) == [i \in 1..Len(s) |-> IF i = 1 THEN UpperChar(s[i]) ELSE LowerChar(s[i])]

IsSpace(c) == c = " "

\* [A-Za-z0-9_], the characters between which the regex \b finds no boundary
IsWordChar(c) == ~IsSpace(c) /\ c # "." /\ c # ","

RECURSIVE LStrip(_)
LStrip(s) == IF s # <<>> /\ IsSpace(Head(s)) THEN LStrip(Tail(s)) ELSE s

RECURSIVE RStrip(_)
RStrip(s) ==
  IF s # <<>> /\ IsSpace(s[Len(s)]) THEN RStrip(SubSeq(s, 1, Len(s) - 1)) ELSE s

\* str.strip()
Strip(s) == RStrip(LStrip(s))

\* a in b  (substring test; the empty string is in every string)
Contains(a, b) ==
  \E i \in 0..(Len(b) - Len(a)) : SubSeq(b, i + 1, i + Len(a)) = a

\* the length of the run of non-space characters s starts with
RECURSIVE RunLen(_)
RunLen(s) == IF s = <<>> \/ IsSpace(Head(s)) THEN 0 ELSE 1 + RunLen(Tail(s))

\* set(str.split()): the set of whitespace-separated words
RECURSIVE SplitSet(_)
SplitSet(s) ==
  IF s = <<>> THEN {}
  ELSE IF IsSpace(Head(s)) THEN SplitSet(Tail(s))
  ELSE LET n == RunLen(s)
       IN  {SubSeq(s, 1, n)} \cup SplitSet(SubSeq(s, n + 1, Len(s)))

\* ------------------------------------------------------------------------
\* OFACSanctionsChecker: matching (ofac_sanctions_scraper.py)
\* ------------------------------------------------------------------------

\* The words of the suffix regex (Inc|LLC|Corp|Corporation|Company|Co|Ltd|Limited),
\* lower-cased (re.IGNORECASE).
SuffixWords ==
  { <<"i","n","c">>,
    <<"l","l","c">>,
    <<"c","o","r","p">>,
    <<"c","o","r","p","o","r","a","t","i","o","n">>,
    <<"c","o","m","p","a","n","y">>,
    <<"c","o">>,
    <<"l","t","d">>,
    <<"l","i","m","i","t","e","d">> }

\* the length of the run of word characters s starts with
RECURSIVE WordLen(_)
WordLen(s) == IF s = <<>> \/ ~IsWordChar(Head(s)) THEN 0 ELSE 1 + WordLen(Tail(s))

\* re.sub(r'\b(Inc|...|Limited)\b\.?', '', s, flags=re.IGNORECASE): every
\* maximal run of word characters that is a suffix word is removed, together
\* with a full stop that follows it; everything else (spaces included) stays.
RECURSIVE RemoveSuffixWords(_)
RemoveSuffixWords(s) ==
  IF s = <<>> THEN <<>>
  ELSE IF ~IsWordChar(Head(s)) THEN <<Head(s)>> \o RemoveSuffixWords(Tail(s))
  ELSE LET n    == WordLen(s)
           word == SubSeq(s, 1, n)
           rest == SubSeq(s, n + 1, Len(s))
       IN  IF Lower(word) \in SuffixWords
           THEN IF rest # <<>> /\ Head(rest) = "."
                THEN RemoveSuffixWords(Tail(rest))
                ELSE RemoveSuffixWords(rest)
           ELSE word \o RemoveSuffixWords(rest)

\* domain.split('.')[0]
RECURSIVE DomainLabel(_)
DomainLabel(d) ==
  IF d = <<>> \/ Head(d) = "." THEN <<>> ELSE <<Head(d)>> \o DomainLabel(Tail(d))

\* A missing domain (None) and the empty domain are both falsy in `if domain:`
\* and are both the empty string here.
\* _prepare_search_terms: the returned list is list(set(...)), so its order is
\* unspecified and it is modelled as the set.
prepare_search_terms(company_name, domain) ==
  LET name_without_suffixes == Strip(RemoveSuffixWords(company_name))
      terms == {Strip(company_name)}
               \cup (IF name_without_suffixes # <<>> /\ name_without_suffixes # company_name
                     THEN {name_without_suffixes} ELSE {})
               \cup (IF domain # <<>>
                     THEN {Capitalize(DomainLabel(domain)), Upper(DomainLabel(domain))}
                     ELSE {})
  IN  {term \in terms : Strip(term) # <<>>}

is_exact_match(search_term, entry) ==
  Strip(Lower(entry.primary_name)) = Strip(Lower(search_term))

is_partial_match(search_term, entry) ==
  LET entry_name  == Strip(Lower(entry.primary_name))
      search_name == Strip(Lower(search_term))
  IN  IF Len(search_name) < 4 THEN FALSE
      ELSE Contains(search_name, entry_name) \/ Contains(entry_name, search_name)

\* a plausible slip: more than half of the words must match
is_fuzzy_match_StrictHalf(search_term, entry) ==
  LET search_words == SplitSet(Strip(Lower(search_term)))
      entry_words  == SplitSet(Strip(Lower(entry.primary_name)))
      common_words == search_words \cap entry_words
  IN  IF Cardinality(search_words) = 0 \/ Cardinality(entry_words) = 0 THEN FALSE
      ELSE 2 * Cardinality(common_words) > Cardinality(search_words)

is_fuzzy_match(search_term, entry) ==
  LET search_words == SplitSet(Strip(Lower(search_term)))
      entry_words  == SplitSet(Strip(Lower(entry.primary_name)))
      common_words == search_words \cap entry_words
  IN  IF Cardinality(search_words) = 0 \/ Cardinality(entry_words) = 0 THEN FALSE
      ELSE 2 * Cardinality(common_words) >= Cardinality(search_words)

is_exact_text_match(search_term, text) ==
  Strip(Lower(search_term)) = Strip(Lower(text))

is_partial_text_match(search_term, text) ==
  LET search_lower == Strip(Lower(search_term))
      text_lower   == Strip(Lower(text))
  IN  IF Len(search_lower) < 4 THEN FALSE
      ELSE Contains(search_lower, text_lower) \/ Contains(text_lower, search_lower)

\* A match record keeps the position of the matched entry in its list, so two
\* entries with equal names give two records; a list of match records is
\* modelled as the set of its records, len() as Cardinality.
MatchRecord(term, i, name, mtype, ltype) ==
  [search_term |-> term, index |-> i, matched_name |-> name,
   match_type |-> mtype, list_type |-> ltype]

\* _screen_against_list: exact, else partial, else fuzzy, for every
\* (entry, search term) pair
screen_against_list(search_terms, sdn_list, list_type) ==
  LET pairs == (1..Len(sdn_list)) \X search_terms
      rec(p, t) == MatchRecord(p[2], p[1], sdn_list[p[1]].primary_name, t, list_type)
      ex(p) == is_exact_match(p[2], sdn_list[p[1]])
      pa(p) == is_partial_match(p[2], sdn_list[p[1]])
      fu(p) == is_fuzzy_match(p[2], sdn_list[p[1]])
  IN  [exact   |-> {rec(p, "exact") : p \in {q \in pairs : ex(q)}},
       partial |-> {rec(p, "partial") : p \in {q \in pairs : ~ex(q) /\ pa(q)}},
       fuzzy   |-> {rec(p, "fuzzy") : p \in {q \in pairs : ~ex(q) /\ ~pa(q) /\ fu(q)}}]

\* _screen_against_alt_names: exact, else partial (no fuzzy test)
screen_against_alt_names(search_terms, alt_list) ==
  LET pairs == (1..Len(alt_list)) \X search_terms
      rec(p, t) == MatchRecord(p[2], p[1], alt_list[p[1]].alternative_name, t,
                               "Alternative Names")
      ex(p) == is_exact_text_match(p[2], alt_list[p[1]].alternative_name)
      pa(p) == is_partial_text_match(p[2], alt_list[p[1]].alternative_name)
  IN  [exact   |-> {rec(p, "exact") : p \in {q \in pairs : ex(q)}},
       partial |-> {rec(p, "partial") : p \in {q \in pairs : ~ex(q) /\ pa(q)}}]

\* _screen_domain: the domain label against every SDN primary name
screen_domain(domain, ofac_data) ==
  LET domain_name == Lower(DomainLabel(domain))
      sdn == ofac_data.sdn_entries
  IN  {MatchRecord(domain, i, sdn[i].primary_name, "domain_related", "SDN") :
         i \in {j \in 1..Len(sdn) :
                  \/ Contains(domain_name, Lower(sdn[j].primary_name))
                  \/ Contains(Lower(sdn[j].primary_name), domain_name)}}

\* a plausible slip: the partial-match threshold written as >= 2
determine_risk_level_PartialGe2(sr) ==
  IF Cardinality(sr.exact_matches) > 0 THEN "HIGH_RISK"
  ELSE IF Cardinality(sr.partial_matches) >= 2 \/ Cardinality(sr.domain_matches) > 0
       THEN "MEDIUM_RISK"
  ELSE IF Cardinality(sr.partial_matches) > 0 \/ Cardinality(sr.fuzzy_matches) > 0
       THEN "LOW_RISK"
  ELSE "CLEAR"

\* a plausible slip: the exact-match rule written as == 1
determine_risk_level_ExactEq1(sr) ==
  IF Cardinality(sr.exact_matches) = 1 THEN "HIGH_RISK"
  ELSE IF Cardinality(sr.partial_matches) > 2 \/ Cardinality(sr.domain_matches) > 0
       THEN "MEDIUM_RISK"
  ELSE IF Cardinality(sr.partial_matches) > 0 \/ Cardinality(sr.fuzzy_matches) > 0
       THEN "LOW_RISK"
  ELSE "CLEAR"

\* _determine_risk_level
determine_risk_level(sr) ==
  LET exact_matches   == Cardinality(sr.exact_matches)
      partial_matches == Cardinality(sr.partial_matches)
      domain_matches  == Cardinality(sr.domain_matches)
      fuzzy_matches   == Cardinality(sr.fuzzy_matches)
  IN  IF exact_matches > 0 THEN "HIGH_RISK"
      ELSE IF partial_matches > 2 \/ domain_matches > 0 THEN "MEDIUM_RISK"
      ELSE IF partial_matches > 0 \/ fuzzy_matches > 0 THEN "LOW_RISK"
      ELSE "CLEAR"

\* _screen_entity, lines 223-231: the result it starts from
EmptyScreening ==
  [exact_matches |-> {}, partial_matches |-> {}, domain_matches |-> {},
   fuzzy_matches |-> {}, total_matches |-> 0, risk_level |-> "CLEAR"]

\* _screen_entity, lines 252-259: total_matches and risk_level of the lists
finish_screening(sr) ==
  LET total_matches == Cardinality(sr.exact_matches) + Cardinality(sr.partial_matches)
                       + Cardinality(sr.domain_matches) + Cardinality(sr.fuzzy_matches)
      counted == [sr EXCEPT !.total_matches = total_matches]
  IN  [counted EXCEPT !.risk_level = determine_risk_level(counted)]

\* _screen_entity
screen_entity(company_name, domain, ofac_data) ==
  LET search_terms == prepare_search_terms(company_name, domain)
      sdn_matches  == screen_against_list(search_terms, ofac_data.sdn_entries, "SDN")
      alt_matches  == screen_against_alt_names(search_terms, ofac_data.alternative_names)
  IN  finish_screening(
        [EmptyScreening EXCEPT
           !.exact_matches   = sdn_matches.exact \cup alt_matches.exact,
           !.partial_matches = sdn_matches.partial \cup alt_matches.partial,
           !.fuzzy_matches   = sdn_matches.fuzzy,
           !.domain_matches  = IF domain # <<>>
                               THEN screen_domain(domain, ofac_data) ELSE {}])


\* _get_compliance_recommendation: a dict lookup with a default
get_compliance_recommendation(risk_level) ==
  CASE risk_level = "CLEAR"       -> "Proceed with standard due diligence procedures"
    [] risk_level = "LOW_RISK"    -> "Conduct enhanced due diligence and document findings"
    [] risk_level = "MEDIUM_RISK" -> "Require additional documentation and senior approval"
    [] risk_level = "HIGH_RISK"   -> "Prohibit transaction - immediate escalation required"
    [] OTHER                      -> "Review required"

\* _format_screening_response (match_details and metadata timestamps left out)
format_screening_response(sr, company_name, domain) ==
  LET risk_level == sr.risk_level
  IN  [company_name |-> company_name,
       domain |-> domain,
       sanctions_screening |->
         [risk_level      |-> risk_level,
          status          |-> IF risk_level = "HIGH_RISK" THEN "SANCTIONED" ELSE "CLEAR",
          total_matches   |-> sr.total_matches,
          exact_matches   |-> Cardinality(sr.exact_matches),
          partial_matches |-> Cardinality(sr.partial_matches),
          domain_matches  |-> Cardinality(sr.domain_matches),
          fuzzy_matches   |-> Cardinality(sr.fuzzy_matches)],
       compliance_assessment |->
         [ofac_compliant                  |-> risk_level = "CLEAR",
          requires_enhanced_due_diligence |-> risk_level \in {"HIGH_RISK", "MEDIUM_RISK"},
          immediate_escalation_required   |-> risk_level = "HIGH_RISK",
          recommendation                  |-> get_compliance_recommendation(risk_level)],
       metadata |->
         [screening_method |-> "comprehensive",
          confidence_level |-> IF sr.total_matches = 0 THEN "high" ELSE "medium"]]

\* _create_error_response
create_error_response(error_message) ==
  [error |-> error_message,
   sanctions_screening |-> [status |-> "ERROR", risk_level |-> "UNKNOWN"],
   compliance_assessment |-> [ofac_compliant |-> FALSE, requires_manual_review |-> TRUE],
   metadata |-> [error_type |-> "screening_failure"]]

\* ------------------------------------------------------------------------
\* OFACSanctionsChecker: the reference-data cache
\* ------------------------------------------------------------------------

\* self.cache_duration = 86400 seconds; the model's clock counts units of
\* 8 hours (28800 s), so 24 hours are 3 units.
cache_duration == 3

\* a plausible slip: a cache of exactly the TTL's age still counts as fresh
is_cache_valid_AgeLeTtl(data, timestamp, time) ==
  IF data = None THEN FALSE
  ELSE IF timestamp = None THEN FALSE
  ELSE IF Get(timestamp) = 0 THEN FALSE
  ELSE (time - Get(timestamp)) <= cache_duration

\* _is_cache_valid, of the fields self.cached_data and self.cache_timestamp at
\* time.time() = time. `not self.cached_data` is true of None only (the cached
\* dict always has four keys); `not self.cache_timestamp` is true of None and
\* of 0.
is_cache_valid(data, timestamp, time) ==
  IF data = None THEN FALSE
  ELSE IF timestamp = None THEN FALSE
  ELSE IF Get(timestamp) = 0 THEN FALSE
  ELSE (time - Get(timestamp)) < cache_duration

\* _download_sdn_list: `response` is None when requests.get, raise_for_status
\* or the XML parse raises (the exception is caught inside and [] returned),
\* and the parsed entry list otherwise.
download_sdn_list(response) == IF response = None THEN <<>> ELSE Get(response)

\* _download_alt_list: as _download_sdn_list
download_alt_list(response) == IF response = None THEN <<>> ELSE Get(response)

\* _load_ofac_data: [data, cached_data, cache_timestamp, refreshed] after the
\* call. Both downloads catch every exception themselves, so the try block
\* of lines 77-97 always runs to its end and line 101 (return None) is never
\* reached from them.
load_ofac_data(data, timestamp, time, sdn_response, alt_response) ==
  IF is_cache_valid(data, timestamp, time)
  THEN [ofac_data |-> data, cached_data |-> data, cache_timestamp |-> timestamp,
        refreshed |-> FALSE]
  ELSE LET sdn_data == download_sdn_list(sdn_response)
           alt_data == download_alt_list(alt_response)
           ofac_data == [sdn_entries |-> sdn_data, alternative_names |-> alt_data,
                         download_timestamp |-> time, total_entries |-> Len(sdn_data)]
       IN  [ofac_data |-> Some(ofac_data), cached_data |-> Some(ofac_data),
            cache_timestamp |-> Some(time), refreshed |-> TRUE]

\* check_company_sanctions, given what _load_ofac_data returned: `not
\* ofac_data` is true of None only, a dict with four keys is truthy even when
\* both of its lists are empty.
check_company_sanctions(company_name, domain, ofac_data) ==
  IF ofac_data = None THEN create_error_response("Failed to load OFAC data")
  ELSE format_screening_response(
         screen_entity(company_name, domain, Get(ofac_data)), company_name, domain)

\* ------------------------------------------------------------------------
\* SpecRisk: the four match lists of _screen_entity grow one record at a
\* time, and lines 252-259 recompute total_matches and risk_level.
\* ------------------------------------------------------------------------

\* the longest list tried
MaxMatches == 4

MatchLists == {"exact", "partial", "domain", "fuzzy"}

ListOf(sr, which) ==
  CASE which = "exact"   -> sr.exact_matches
    [] which = "partial" -> sr.partial_matches
    [] which = "domain"  -> sr.domain_matches
    [] which = "fuzzy"   -> sr.fuzzy_matches

\* list.extend([record]) on one of the lists
Extended(sr, which) ==
  LET r == [index |-> Cardinality(ListOf(sr, which)) + 1, match_type |-> which]
  IN  CASE which = "exact"   -> [sr EXCEPT !.exact_matches = @ \cup {r}]
        [] which = "partial" -> [sr EXCEPT !.partial_matches = @ \cup {r}]
        [] which = "domain"  -> [sr EXCEPT !.domain_matches = @ \cup {r}]
        [] which = "fuzzy"   -> [sr EXCEPT !.fuzzy_matches = @ \cup {r}]

\* OFACSanctionsChecker.__init__ (lines 24-27); the clock starts at a positive
\* time, as time.time() does.
OfacIdle ==
  /\ cached_data = None
  /\ cache_timestamp = None
  /\ now = 1
  /\ last_call = None

RiskIdle ==
  /\ screening_results = EmptyScreening
  /\ prev_risk_level = "CLEAR"
  /\ last_added = "none"

ofacVars == <<cached_data, cache_timestamp, now, last_call>>

riskVars == <<screening_results, prev_risk_level, last_added>>

coordVars == <<industry_category, pc, tier_idx, tasks, group_results, all_results,
               faults, started, recorded>>

matchVars == <<screen_input, screen_output>>

\* the variables of the specifications of single calls
validatorVars == <<scraped_data, cv_pc, next_item, source_validations,
                   total_confidence, valid_sources, validation_summary>>

handlerVars == <<error_counts, error_history, handler_clock, handler_response, handled>>

entryVars == <<entry_calls>>

routesVars == <<assessment_progress, background_tasks, route_response,
                enhanced_available, standard_available, last_writer>>

collectVars ==
  <<collection, collect_pc, collect_returned, scrapers_available, ofac_available>>

laterVars == <<handlerVars, entryVars, routesVars, collectVars>>

pureVars == <<matchVars, validatorVars, laterVars>>

earlierVars ==
  <<riskVars, ofacVars, coordVars, matchVars, validatorVars, entryVars, routesVars,
    collectVars>>

vars == <<riskVars, ofacVars, coordVars, pureVars>>

\* no _screen_entity call under way
MatchIdle ==
  /\ screen_input = None
  /\ screen_output = None

\* no cross_validate_data call under way
ValidatorIdle ==
  /\ scraped_data = <<>>
  /\ cv_pc = "idle"
  /\ next_item = 1
  /\ source_validations = <<>>
  /\ total_confidence = 0
  /\ valid_sources = 0
  /\ validation_summary = None

\* KYBErrorHandler.__init__
HandlerIdle ==
  /\ error_counts = <<>>
  /\ error_history = <<>>
  /\ handler_clock = 0
  /\ handler_response = <<>>
  /\ handled = <<>>

EntryIdle == entry_calls = <<>>

RoutesIdle ==
  /\ assessment_progress = <<>>
  /\ background_tasks = <<>>
  /\ route_response = <<>>
  /\ enhanced_available = FALSE
  /\ standard_available = FALSE
  /\ last_writer = <<>>

CollectIdle ==
  /\ collection = <<>>
  /\ collect_pc = "idle"
  /\ collect_returned = <<>>
  /\ scrapers_available = FALSE
  /\ ofac_available = FALSE

LaterIdle == HandlerIdle /\ EntryIdle /\ RoutesIdle /\ CollectIdle

PureIdle == MatchIdle /\ ValidatorIdle /\ LaterIdle

\* no run under way
CoordIdle ==
  /\ industry_category = "default"
  /\ pc = "idle"
  /\ tier_idx = 0
  /\ tasks = <<>>
  /\ group_results = <<>>
  /\ all_results = <<>>
  /\ faults = 0
  /\ started = {}
  /\ recorded = {}

InitRisk == RiskIdle /\ OfacIdle /\ CoordIdle /\ PureIdle

AddMatch(which) ==
  /\ Cardinality(ListOf(screening_results, which)) < MaxMatches
  /\ screening_results' = finish_screening(Extended(screening_results, which))
  /\ prev_risk_level' = screening_results.risk_level
  /\ last_added' = which
  /\ UNCHANGED <<ofacVars, coordVars, pureVars>>

AddExactMatch == AddMatch("exact")

AddPartialMatch == AddMatch("partial")

AddDomainMatch == AddMatch("domain")

AddFuzzyMatch == AddMatch("fuzzy")

NextRisk == AddExactMatch \/ AddPartialMatch \/ AddDomainMatch \/ AddFuzzyMatch

SpecRisk == InitRisk /\ [][NextRisk]_vars

NumExact == Cardinality(screening_results.exact_matches)

NumPartial == Cardinality(screening_results.partial_matches)

NumDomain == Cardinality(screening_results.domain_matches)

NumFuzzy == Cardinality(screening_results.fuzzy_matches)

\* C9: the risk level follows the decision table, first rule wins: any exact
\* match gives HIGH_RISK; without one, more than two partial matches or any
\* domain match gives MEDIUM_RISK; without those, any partial or fuzzy match
\* gives LOW_RISK; with no match at all the level is CLEAR.
C9_RiskDecisionTable ==
  /\ (NumExact > 0) <=> (screening_results.risk_level = "HIGH_RISK")
  /\ (NumExact = 0 /\ (NumPartial > 2 \/ NumDomain > 0))
       <=> (screening_results.risk_level = "MEDIUM_RISK")
  /\ (NumExact = 0 /\ NumPartial <= 2 /\ NumDomain = 0 /\ NumPartial + NumFuzzy > 0)
       <=> (screening_results.risk_level = "LOW_RISK")
  /\ (screening_results.total_matches = 0) <=> (screening_results.risk_level = "CLEAR")

\* three partial matches and nothing else: the second rule decides
C9_Witness ==
  /\ NumExact = 0 /\ NumPartial = 3 /\ NumDomain = 0 /\ NumFuzzy = 1
  /\ screening_results.risk_level = "MEDIUM_RISK"

RiskOrder(level) ==
  CASE level = "CLEAR" -> 0 [] level = "LOW_RISK" -> 1
    [] level = "MEDIUM_RISK" -> 2 [] level = "HIGH_RISK" -> 3

\* C10: adding one match record of any type never lowers the risk level in
\* the order CLEAR < LOW_RISK < MEDIUM_RISK < HIGH_RISK, and adding an exact
\* match always gives HIGH_RISK.
C10_RiskMonotonic ==
  last_added # "none" =>
    /\ RiskOrder(screening_results.risk_level) >= RiskOrder(prev_risk_level)
    /\ last_added = "exact" => screening_results.risk_level = "HIGH_RISK"

\* an exact match added to a result that was MEDIUM_RISK
C10_Witness ==
  /\ last_added = "exact"
  /\ NumExact = 1
  /\ prev_risk_level = "MEDIUM_RISK"
  /\ screening_results.risk_level = "HIGH_RISK"


\* ------------------------------------------------------------------------
\* SpecOfac: screening calls on one OFACSanctionsChecker while the clock
\* advances and the reference source is reachable or not.
\* ------------------------------------------------------------------------

\* the last clock value tried (units of 8 hours)
MaxClock == 6

AcmeCorp == <<"A","c","m","e"," ","C","o","r","p">>

Xero == <<"X","e","r","o">>

AcmeCom == <<"a","c","m","e",".","c","o","m">>

\* the company names and domains screened
Companies == {AcmeCorp, Xero}

Domains == {<<>>, AcmeCom}

\* what the reference source may publish at a download: SDN entries ...
PublishedSdnLists ==
  { << [uid |-> 1, primary_name |-> <<"A","C","M","E"," ","C","O","R","P">>] >>,
    << [uid |-> 2, primary_name |-> <<"R","o","m","a"," ","A","c","m","e">>],
       [uid |-> 3, primary_name |-> <<"P","a","x">>] >> }

\* ... and alternative names
PublishedAltLists ==
  { << [uid |-> 1, alternative_name |-> <<"A","c","m","e">>] >>,
    << [uid |-> 3, alternative_name |-> <<"P","a","x"," ","R","o","m","a">>] >> }

InitOfac == RiskIdle /\ OfacIdle /\ CoordIdle /\ PureIdle

\* what a download attempt may meet: a failure (None) or a published list
SdnResponses == {None} \cup {Some(l) : l \in PublishedSdnLists}

AltResponses == {None} \cup {Some(l) : l \in PublishedAltLists}

\* One call of checker.check_company_sanctions(company_name, domain) at time
\* `now`; sdn_response / alt_response are what the requests for sdn.xml and
\* alt.xml meet, should the call make them.
CheckCompanySanctions ==
  \E company_name \in Companies, domain \in Domains,
     sdn_response \in SdnResponses, alt_response \in AltResponses :
    LET loaded == load_ofac_data(cached_data, cache_timestamp, now,
                                 sdn_response, alt_response)
    IN  /\ cached_data' = loaded.cached_data
        /\ cache_timestamp' = loaded.cache_timestamp
        /\ last_call' = Some(
             [company_name |-> company_name, domain |-> domain, at |-> now,
              cached_before |-> cached_data, timestamp_before |-> cache_timestamp,
              refreshed |-> loaded.refreshed,
              sdn_ok |-> sdn_response # None, alt_ok |-> alt_response # None,
              ofac_data |-> loaded.ofac_data,
              result |-> check_company_sanctions(company_name, domain, loaded.ofac_data)])
        /\ UNCHANGED <<now, riskVars, coordVars, pureVars>>

\* time passes
Tick ==
  /\ now < MaxClock
  /\ now' = now + 1
  /\ UNCHANGED <<cached_data, cache_timestamp, last_call, riskVars, coordVars, pureVars>>

NextOfac == CheckCompanySanctions \/ Tick

SpecOfac == InitOfac /\ [][NextOfac]_vars


Call == Get(last_call)

\* the call found no usable cache and every download it made failed
RefreshFailed == last_call # None /\ Call.refreshed /\ ~Call.sdn_ok /\ ~Call.alt_ok

IsErrorVerdict(r) ==
  /\ "error" \in DOMAIN r
  /\ r.sanctions_screening.status = "ERROR"
  /\ r.sanctions_screening.risk_level # "CLEAR"
  /\ r.compliance_assessment.ofac_compliant = FALSE
  /\ "requires_manual_review" \in DOMAIN r.compliance_assessment
  /\ r.compliance_assessment.requires_manual_review = TRUE

\* C2: a call that finds no cache and whose downloads fail returns an error
\* verdict (ofac_compliant false, requires_manual_review true), never a
\* verdict with risk_level CLEAR or ofac_compliant true.
C2_NoCacheNoDataIsError ==
  (RefreshFailed /\ Call.cached_before = None) => IsErrorVerdict(Call.result)

\* C3: a call that finds the cache stale and whose refresh fails screens
\* against the lists cached before, leaves them in the cache, and reports the
\* run as degraded.
C3_StaleCacheKeptOnFailure ==
  (/\ RefreshFailed
   /\ Call.cached_before # None
   /\ Get(Call.cached_before).sdn_entries # <<>>) =>
     LET before == Get(Call.cached_before)
     IN  /\ Get(Call.ofac_data).sdn_entries = before.sdn_entries
         /\ Get(Call.ofac_data).alternative_names = before.alternative_names
         /\ Get(cached_data).sdn_entries = before.sdn_entries
         /\ Get(cached_data).alternative_names = before.alternative_names
         /\ "degraded" \in DOMAIN Call.result

\* C4: a call uses the cached dataset without a refresh only if a cache
\* exists and its age, now minus cache_timestamp, is strictly less than the
\* TTL; with no cache, or one whose age is at least the TTL, it refreshes.
C4_CacheNeverFresherThanTtl ==
  last_call # None =>
    LET fresh == /\ Call.cached_before # None
                 /\ Call.timestamp_before # None
                 /\ Call.at - Get(Call.timestamp_before) < cache_duration
    IN  /\ ~Call.refreshed => (fresh /\ Call.ofac_data = Call.cached_before)
        /\ ~fresh => (Call.refreshed /\ cache_timestamp = Some(Call.at))

\* a call made when the cache is exactly cache_duration old refreshes it
C4_Witness ==
  /\ last_call # None
  /\ Call.cached_before # None
  /\ Call.at - Get(Call.timestamp_before) = cache_duration
  /\ Call.refreshed
  /\ Call.sdn_ok


\* ------------------------------------------------------------------------
\* SpecEntry: screening calls made through the module function
\* check_ofac_sanctions while the clock advances and the reference source is
\* reachable or not. cached_data and cache_timestamp are the fields of the
\* checker the last call constructed.
\* ------------------------------------------------------------------------

\* how many calls are made
MaxEntryCalls == 2

InitEntry == RiskIdle /\ OfacIdle /\ CoordIdle /\ PureIdle

\* check_ofac_sanctions(company_name, domain), lines 539-540: a checker is
\* constructed, whose __init__ sets cached_data and cache_timestamp to None,
\* and check_company_sanctions is called on it
CheckOfacSanctions ==
  /\ Len(entry_calls) < MaxEntryCalls
  /\ \E company_name \in Companies, domain \in Domains,
        sdn_response \in SdnResponses, alt_response \in AltResponses :
       LET loaded == load_ofac_data(None, None, now, sdn_response, alt_response)
           call == [company_name |-> company_name, domain |-> domain, at |-> now,
                    cached_before |-> None, timestamp_before |-> None,
                    refreshed |-> loaded.refreshed,
                    sdn_ok |-> sdn_response # None, alt_ok |-> alt_response # None,
                    ofac_data |-> loaded.ofac_data,
                    result |-> check_company_sanctions(company_name, domain,
                                                       loaded.ofac_data)]
       IN  /\ cached_data' = loaded.cached_data
           /\ cache_timestamp' = loaded.cache_timestamp
           /\ last_call' = Some(call)
           /\ entry_calls' = Append(entry_calls, call)
  /\ UNCHANGED <<now, riskVars, coordVars, matchVars, validatorVars, handlerVars,
                 routesVars, collectVars>>

NextEntry == CheckOfacSanctions \/ Tick

SpecEntry == InitEntry /\ [][NextEntry]_vars

\* C26: of two successive calls of check_ofac_sanctions, when the first
\* downloaded the reference data successfully and the second is made less
\* than the TTL later, the second makes no download and screens against the
\* dataset the first cached.
C26_SecondCallUsesCache ==
  \A i \in 1..(Len(entry_calls) - 1) :
    (/\ entry_calls[i].refreshed
     /\ entry_calls[i].sdn_ok /\ entry_calls[i].alt_ok
     /\ entry_calls[i + 1].at - entry_calls[i].at < cache_duration)
    => /\ ~entry_calls[i + 1].refreshed
       /\ entry_calls[i + 1].ofac_data = entry_calls[i].ofac_data

\* ------------------------------------------------------------------------
\* EnhancedScraperCoordinator (scraper_coordinator.py)
\* ------------------------------------------------------------------------

\* __init__: max_workers: int = 3
max_workers == 3

\* coordinate_full_assessment, line 262
execution_order == <<"critical", "high", "medium", "enhanced">>

\* the industry_category values with a branch of their own in
\* get_industry_scraper_config; "default" stands for every other value
Categories ==
  {"fintech_financial", "ecommerce_retail", "software_saas", "healthcare",
   "media_social", "default"}

\* a (scraper_name, scraper_func) pair of the configuration; func is the
\* function's __name__
Scraper(name, func) == [name |-> name, func |-> func]

check_https == Scraper("https_check", "check_https")

check_privacy_term == Scraper("privacy_terms", "check_privacy_term")

get_whois_data == Scraper("whois_data", "get_whois_data")

scrape_google_safe_browsing == Scraper("google_safe_browsing", "scrape_google_safe_browsing")

scrape_ssl_org == Scraper("ssl_org_report", "scrape_ssl_org")

check_social_presence == Scraper("social_presence", "check_social_presence")

scrape_tranco_list == Scraper("tranco_ranking", "scrape_tranco_list")

scrape_ipvoid == Scraper("ipvoid", "scrape_ipvoid")

ofac_domain_wrapper == Scraper("ofac_sanctions", "ofac_domain_wrapper")

\* list.insert(i, x) for 0 <= i <= len(list)
ListInsert(l, i, x) == SubSeq(l, 1, i) \o <<x>> \o SubSeq(l, i + 1, Len(l))

\* get_industry_scraper_config, with every scraper module importable
\* (OFAC_AVAILABLE is True: ofac_sanctions_scraper.py is part of the package)
get_industry_scraper_config(category) ==
  LET base_config ==
        [critical |-> <<check_https, check_privacy_term, get_whois_data,
                        ofac_domain_wrapper>>,
         high     |-> <<scrape_google_safe_browsing, scrape_ssl_org,
                        check_social_presence, scrape_tranco_list>>,
         medium   |-> <<scrape_ipvoid>>,
         enhanced |-> <<>>]
  IN  CASE category = "fintech_financial" ->
             [base_config EXCEPT !.high = ListInsert(@, 0, scrape_ssl_org)]
        [] category = "ecommerce_retail" ->
             [base_config EXCEPT !.high = ListInsert(@, 0, scrape_tranco_list)]
        [] category = "software_saas" ->
             [base_config EXCEPT !.critical = ListInsert(@, 1, scrape_ssl_org)]
        [] category = "healthcare" ->
             [base_config EXCEPT !.critical = @ \o <<scrape_ssl_org, scrape_ipvoid>>]
        [] category = "media_social" ->
             [base_config EXCEPT !.high = ListInsert(@, 0, check_social_presence)]
        [] OTHER -> base_config

\* what one invocation of a probe function may do: return a well-formed
\* dict, return a dict with an "error" key, return None, return a value that
\* is no dict, raise an Exception with a message, or raise one without
\* (str(e) is then the empty string, as for StopIteration() or a bare
\* TimeoutError())
ProbeOutcomes == {"dict", "error_dict", "none", "non_dict", "raises", "raises_no_message"}

\* a dict is a record; a key is present when it is in the record's DOMAIN.
\* `fields` stands for the dict's data keys (their number). The screening
\* probe returns what _format_screening_response builds (here for a name
\* without matches) or what _create_error_response builds.
Payload(scraper_name, outcome) ==
  IF scraper_name = "ofac_domain_wrapper"
  THEN CASE outcome = "dict" ->
              [fields |-> 6,
               sanctions_screening |->
                 [risk_level |-> "CLEAR", status |-> "CLEAR", total_matches |-> 0],
               compliance_assessment |-> [ofac_compliant |-> TRUE]]
         [] outcome = "error_dict" ->
              [error |-> "Failed to load OFAC data", fields |-> 3,
               sanctions_screening |-> [status |-> "ERROR", risk_level |-> "UNKNOWN"],
               compliance_assessment |-> [ofac_compliant |-> FALSE]]
  ELSE CASE outcome = "dict"       -> [fields |-> 5]
         [] outcome = "error_dict" -> [error |-> "probe error", fields |-> 0]

\* result.get("error") is truthy: the key is present and its value is not
\* the empty string
HasError(result) == "error" \in DOMAIN result /\ result.error # ""

\* _assess_data_quality
assess_data_quality(result) ==
  IF HasError(result) THEN "poor"
  ELSE IF result.fields >= 5 THEN "high"
  ELSE IF result.fields >= 3 THEN "medium"
  ELSE "low"

\* _is_compliance_relevant; scraper_name is the function's __name__
is_compliance_relevant(scraper_name, result) ==
  /\ scraper_name \in {"ofac_sanctions", "privacy_terms", "ssl_org_report",
                       "google_safe_browsing", "whois_data", "ipvoid"}
  /\ ~HasError(result)

\* run_scraper_safely(scraper_func, domain) when the probe does `outcome`
run_scraper_safely(scraper_name, outcome) ==
  IF outcome \in {"raises", "raises_no_message"}
  THEN [error |-> IF outcome = "raises" THEN "exception" ELSE "",
        scraper |-> scraper_name,
        scraper_metadata |-> [scraper_name |-> scraper_name, status |-> "failed",
                              error_type |-> "Exception"]]
  ELSE LET result ==
             CASE outcome = "none" ->
                    [error |-> "Scraper returned None", scraper |-> scraper_name]
               [] outcome = "non_dict" ->
                    [error |-> "Invalid result type", scraper |-> scraper_name]
               [] OTHER -> Payload(scraper_name, outcome)
       IN  result @@ ("scraper_metadata" :>
             [scraper_name |-> scraper_name, status |-> "success",
              data_quality |-> assess_data_quality(result),
              compliance_relevant |-> is_compliance_relevant(scraper_name, result)])

Abs(n) == IF n < 0 THEN -n ELSE n

\* round(total / count, 2) in hundredths: the two-decimal values nearest to
\* the quotient. There is one, except when the quotient lies exactly between
\* two of them; which of the two round() then returns depends on the binary
\* floating-point value of the quotient.
RoundedMeans(total, count) == {r \in 0..100 : 2 * Abs(r * count - total) <= count}

\* dict[key] = value
DictPut(d, key, value) ==
  [k \in DOMAIN d \cup {key} |-> IF k = key THEN value ELSE d[k]]

\* dict.update(other)
DictUpdate(d, other) ==
  [k \in DOMAIN d \cup DOMAIN other |-> IF k \in DOMAIN other THEN other[k] ELSE d[k]]

\* _load_industry_configurations; risk_multiplier in tenths
industry_configurations(category) ==
  CASE category = "fintech_financial" ->
         [compliance_focus |-> <<"sanctions_screening", "financial_licenses", "aml_compliance">>,
          risk_multiplier |-> 13, required_data_sources |-> 8]
    [] category = "ecommerce_retail" ->
         [compliance_focus |-> <<"consumer_protection", "payment_security", "privacy_compliance">>,
          risk_multiplier |-> 11, required_data_sources |-> 6]
    [] category = "software_saas" ->
         [compliance_focus |-> <<"data_protection", "security_certifications", "privacy_policies">>,
          risk_multiplier |-> 10, required_data_sources |-> 7]
    [] category = "healthcare" ->
         [compliance_focus |-> <<"hipaa_compliance", "data_security", "medical_licenses">>,
          risk_multiplier |-> 14, required_data_sources |-> 9]
    [] category = "media_social" ->
         [compliance_focus |-> <<"content_moderation", "privacy_policies", "user_safety">>,
          risk_multiplier |-> 12, required_data_sources |-> 6]
    [] OTHER ->
         [compliance_focus |-> <<"basic_compliance", "business_verification">>,
          risk_multiplier |-> 10, required_data_sources |-> 5]

\* key.startswith("coordination_"), on the keys a result map holds
IsCoordinationKey(key) == key = "coordination_metadata"

\* key.startswith("assessment_"), on the keys a result map holds
IsAssessmentKey(key) == key = "assessment_summary"

\* Every value of a result map is a dict, so isinstance(v, dict) holds of each.
\* _check_industry_requirements
check_industry_requirements(results, industry_config) ==
  LET required_sources == industry_config.required_data_sources
      successful_scrapers ==
        Cardinality({k \in DOMAIN results :
                       ~HasError(results[k]) /\ ~IsCoordinationKey(k)})
  IN  successful_scrapers >= required_sources

\* score_map.get(quality, 0.0) of _calculate_overall_data_quality, in hundredths
QualityScore(result) ==
  LET quality == IF "scraper_metadata" \in DOMAIN result
                    /\ "data_quality" \in DOMAIN result.scraper_metadata
                 THEN result.scraper_metadata.data_quality ELSE "medium"
  IN  CASE quality = "high" -> 100 [] quality = "medium" -> 60
        [] quality = "low" -> 30 [] OTHER -> 0

RECURSIVE SumQuality(_, _)
SumQuality(results, keys) ==
  IF keys = {} THEN 0
  ELSE LET k == CHOOSE x \in keys : TRUE
       IN  QualityScore(results[k]) + SumQuality(results, keys \ {k})

\* _calculate_overall_data_quality: the values round() may return (hundredths)
calculate_overall_data_quality(results) ==
  LET scored == {k \in DOMAIN results : ~IsCoordinationKey(k)}
  IN  IF scored = {} THEN {0}
      ELSE RoundedMeans(SumQuality(results, scored), Cardinality(scored))

InSeq(x, seq) == \E i \in 1..Len(seq) : seq[i] = x

\* _calculate_compliance_score: the values round() may return (hundredths)
calculate_compliance_score(results, category) ==
  LET compliance_focus == industry_configurations(category).compliance_focus
      max_score == IF Len(compliance_focus) > 0 THEN Len(compliance_focus) ELSE 1
      sanctions == /\ InSeq("sanctions_screening", compliance_focus)
                   /\ "ofac_sanctions" \in DOMAIN results
                   /\ ~HasError(results["ofac_sanctions"])
      privacy == /\ InSeq("data_protection", compliance_focus)
                 /\ "privacy_terms" \in DOMAIN results
                 /\ "privacy_policy_present" \in DOMAIN results["privacy_terms"]
                 /\ results["privacy_terms"].privacy_policy_present
      security == /\ InSeq("security_certifications", compliance_focus)
                  /\ "ssl_org_report" \in DOMAIN results
                  /\ "report_summary" \in DOMAIN results["ssl_org_report"]
                  /\ "ssl_grade" \in DOMAIN results["ssl_org_report"].report_summary
                  /\ results["ssl_org_report"].report_summary.ssl_grade \in {"A+", "A", "A-"}
      compliance_score == (IF sanctions THEN 1 ELSE 0) + (IF privacy THEN 1 ELSE 0)
                          + (IF security THEN 1 ELSE 0)
  IN  RoundedMeans(100 * compliance_score, max_score)

\* what _classify_industry returns: the classifier's dict with the
\* enhancement added (the classifier reports its own failures in an error
\* key), the fallback dict when the site gave no content, or the dict of the
\* except branch
classify_industry(outcome) ==
  CASE outcome = "classified" ->
         [mcc_code |-> "5734", category |-> "software_saas", confidence |-> 85,
          enhanced_classification |-> TRUE]
    [] outcome = "classifier_error" ->
         [error |-> "Gemini API key not configured", mcc_code |-> "unknown",
          confidence |-> 0, enhanced_classification |-> TRUE]
    [] outcome = "fallback" ->
         [industry_category |-> "unknown", confidence |-> 30,
          classification_method |-> "fallback"]
    [] outcome = "failed" ->
         [industry_category |-> "unknown", error |-> "import failed",
          classification_method |-> "failed"]

\* coordinate_full_assessment, lines 285-298: the counters and scores added
\* to coordination_metadata, given what the two round() calls returned
final_metadata(results, category, data_quality_score, compliance_score) ==
  [scrapers_executed |->
     Cardinality({k \in DOMAIN results : ~IsCoordinationKey(k)}),
   successful_scrapers |->
     Cardinality({k \in DOMAIN results : "error" \notin DOMAIN results[k]}),
   failed_scrapers |->
     Cardinality({k \in DOMAIN results : "error" \in DOMAIN results[k]}),
   ofac_screening_completed |-> "ofac_sanctions" \in DOMAIN results,
   industry_requirements_met |->
     check_industry_requirements(results, industry_configurations(category)),
   data_quality_score |-> data_quality_score,
   compliance_score |-> compliance_score]

\* dict.get(key, default) on a dict that is a record
GetOr(dict, key, default) == IF key \in DOMAIN dict THEN dict[key] ELSE default

\* generate_enhanced_assessment_summary, given what the two round() calls
\* returned. Of key_findings and risk_indicators the entries of lines 519-523
\* (OFAC) are kept; those of _extract_enhanced_key_findings and
\* _check_enhanced_risk_indicators depend on the payloads' data keys, which
\* the result records do not detail.
generate_enhanced_assessment_summary(results, data_quality_score, compliance_score) ==
  LET industry_category_ ==
        GetOr(GetOr(results, "coordination_metadata", <<>>), "industry_category", "unknown")
      industry_config == industry_configurations(industry_category_)
      ofac_results == GetOr(results, "ofac_sanctions", <<>>)
      screened == ofac_results # <<>> /\ "error" \notin DOMAIN ofac_results
      sanctions_screening == GetOr(ofac_results, "sanctions_screening", <<>>)
      compliance_assessment == GetOr(ofac_results, "compliance_assessment", <<>>)
      counted == {k \in DOMAIN results : ~IsCoordinationKey(k) /\ ~IsAssessmentKey(k)}
      total == Cardinality(counted)
      successful == Cardinality({k \in counted : "error" \notin DOMAIN results[k]})
  IN  [assessment_summary |->
         [total_scrapers |-> total,
          successful_scrapers |-> successful,
          failed_scrapers |-> total - successful,
          data_quality_score |-> data_quality_score,
          compliance_score |-> compliance_score,
          industry_category |-> industry_category_,
          key_findings |->
            IF screened /\ ~(GetOr(sanctions_screening, "total_matches", 0) > 0)
            THEN <<"OFAC sanctions screening clear">> ELSE <<>>,
          risk_indicators |->
            IF screened /\ GetOr(sanctions_screening, "total_matches", 0) > 0
            THEN <<"OFAC sanctions matches found - immediate escalation required">>
            ELSE <<>>,
          compliance_status |->
            IF screened
            THEN [ofac_screening_completed |-> TRUE,
                  ofac_status |-> GetOr(sanctions_screening, "status", "UNKNOWN"),
                  sanctions_risk |-> GetOr(sanctions_screening, "risk_level", "UNKNOWN"),
                  ofac_compliant |-> GetOr(compliance_assessment, "ofac_compliant", FALSE)]
            ELSE [ofac_screening_completed |-> FALSE, ofac_status |-> "UNKNOWN",
                  sanctions_risk |-> "UNKNOWN", industry_compliance |-> "UNKNOWN"],
          industry_insights |->
            [requirements_met |-> check_industry_requirements(results, industry_config),
             risk_multiplier |-> industry_config.risk_multiplier,
             compliance_focus |-> industry_config.compliance_focus]]]

\* a plausible slip: the group is left once the first result has arrived
\* (as wait(..., return_when=FIRST_COMPLETED) would do)
AllCollected_FirstCompleted(ts) == \E i \in 1..Len(ts) : ts[i].st = "collected"

\* the as_completed loop of line 124 ends when every future has been yielded
AllCollected(ts) == \A i \in 1..Len(ts) : ts[i].st = "collected"

Running(ts) == {i \in 1..Len(ts) : ts[i].st = "running"}

\* a plausible slip: the pool is taken to start a thread per submitted item
PoolHasIdleThread_Unbounded(ts) == Cardinality(Running(ts)) < Len(ts)

\* ThreadPoolExecutor(max_workers=self.max_workers), line 116: a work item
\* leaves the queue only while fewer than max_workers threads are busy
PoolHasIdleThread(ts) == Cardinality(Running(ts)) < max_workers

\* ------------------------------------------------------------------------
\* SpecCoord: one run of coordinate_full_assessment, its worker threads and
\* the probes they call.
\* ------------------------------------------------------------------------

\* how many probe invocations of a run may misbehave (return anything but a
\* well-formed dict, overrun the timeout, never return)
MaxFaults == 1

InitCoord ==
  /\ RiskIdle /\ OfacIdle /\ PureIdle
  /\ industry_category \in Categories
  /\ pc = "next_tier"
  /\ tier_idx = 1
  /\ tasks = <<>>
  /\ group_results = <<>>
  /\ all_results = ("coordination_metadata" :>
                      [industry_category |-> industry_category,
                       industry_config |-> industry_configurations(industry_category),
                       ofac_screening_enabled |-> TRUE,
                       compliance_focus |->
                         industry_configurations(industry_category).compliance_focus,
                       risk_multiplier |->
                         industry_configurations(industry_category).risk_multiplier])
  /\ faults = 0
  /\ started = {}
  /\ recorded = {}

CurrentGroup == get_industry_scraper_config(industry_category)[execution_order[tier_idx]]

\* lines 264-270 and 116-121: the next priority level has scrapers;
\* execute_scraper_group submits them all to a new pool
SubmitGroup ==
  /\ pc = "next_tier"
  /\ tier_idx <= Len(execution_order)
  /\ CurrentGroup # <<>>
  /\ tasks' = [i \in 1..Len(CurrentGroup) |->
                 [name |-> CurrentGroup[i].name, func |-> CurrentGroup[i].func,
                  st |-> "queued", hangs |-> FALSE, overran |-> FALSE,
                  outcome |-> "pending", result |-> None]]
  /\ group_results' = <<>>
  /\ pc' = "collecting"
  /\ UNCHANGED <<industry_category, tier_idx, all_results, faults, started, recorded,
                 riskVars, ofacVars, pureVars>>

\* line 265: a priority level without scrapers is passed over
SkipGroup ==
  /\ pc = "next_tier"
  /\ tier_idx <= Len(execution_order)
  /\ CurrentGroup = <<>>
  /\ tier_idx' = tier_idx + 1
  /\ UNCHANGED <<industry_category, pc, tasks, group_results, all_results, faults,
                 started, recorded, riskVars, ofacVars, pureVars>>

\* the for loop of line 264 is exhausted
FinishLoop ==
  /\ pc = "next_tier"
  /\ tier_idx > Len(execution_order)
  /\ pc' = "classify"
  /\ UNCHANGED <<industry_category, tier_idx, tasks, group_results, all_results,
                 faults, started, recorded, riskVars, ofacVars, pureVars>>

\* a pool thread takes the oldest queued work item (the pool's queue is FIFO
\* and holds at most max_workers threads) and calls run_scraper_safely; the
\* probe it calls may be one that never returns
WorkerStart ==
  \E i \in 1..Len(tasks), hangs \in BOOLEAN :
    /\ tasks[i].st = "queued"
    /\ \A j \in 1..(i - 1) : tasks[j].st # "queued"
    /\ PoolHasIdleThread(tasks)
    /\ hangs => faults < MaxFaults
    /\ tasks' = [tasks EXCEPT ![i].st = "running", ![i].hangs = hangs]
    /\ faults' = IF hangs THEN faults + 1 ELSE faults
    /\ started' = started \cup {<<tier_idx, i>>}
    /\ UNCHANGED <<industry_category, pc, tier_idx, group_results, all_results,
                   recorded, riskVars, ofacVars, pureVars>>

\* a running probe passes its declared timeout
\* (settings.SCRAPER_TIMEOUT_SECONDS) without having returned
TimeoutPasses ==
  \E i \in 1..Len(tasks) :
    /\ tasks[i].st = "running"
    /\ ~tasks[i].overran
    /\ ~tasks[i].hangs => faults < MaxFaults
    /\ tasks' = [tasks EXCEPT ![i].overran = TRUE]
    /\ faults' = IF tasks[i].hangs THEN faults ELSE faults + 1
    /\ UNCHANGED <<industry_category, pc, tier_idx, group_results, all_results,
                   started, recorded, riskVars, ofacVars, pureVars>>

\* a probe returns or raises; run_scraper_safely returns and the future is done
WorkerFinish ==
  \E i \in 1..Len(tasks), outcome \in ProbeOutcomes :
    /\ tasks[i].st = "running"
    /\ ~tasks[i].hangs
    /\ outcome # "dict" => faults < MaxFaults
    /\ tasks' = [tasks EXCEPT ![i].st = "finished", ![i].outcome = outcome,
                              ![i].result = Some(run_scraper_safely(tasks[i].func, outcome))]
    /\ faults' = IF outcome # "dict" THEN faults + 1 ELSE faults
    /\ UNCHANGED <<industry_category, pc, tier_idx, group_results, all_results,
                   started, recorded, riskVars, ofacVars, pureVars>>

\* lines 124-128: as_completed yields a finished future and its result is
\* stored under the scraper's name. future.result() re-raises only what
\* run_scraper_safely raises, which is nothing for a probe that is a function,
\* so the except branch of lines 129-138 stores no record here.
CollectResult ==
  \E i \in 1..Len(tasks) :
    /\ pc = "collecting"
    /\ tasks[i].st = "finished"
    /\ group_results' = DictPut(group_results, tasks[i].name, Get(tasks[i].result))
    /\ tasks' = [tasks EXCEPT ![i].st = "collected"]
    /\ recorded' = recorded \cup {<<tier_idx, i>>}
    /\ UNCHANGED <<industry_category, pc, tier_idx, all_results, faults, started,
                   riskVars, ofacVars, pureVars>>

\* lines 139-142: the loop has yielded every future, the with block is left
\* and the rate-limit sleep begins
GroupCompleted ==
  /\ pc = "collecting"
  /\ AllCollected(tasks)
  /\ pc' = "sleeping"
  /\ UNCHANGED <<industry_category, tier_idx, tasks, group_results, all_results,
                 faults, started, recorded, riskVars, ofacVars, pureVars>>

\* lines 144-145 and 271: execute_scraper_group returns and the group's
\* results are merged into all_results
ReturnGroup ==
  /\ pc = "sleeping"
  /\ all_results' = DictUpdate(all_results, group_results)
  /\ tier_idx' = tier_idx + 1
  /\ pc' = "next_tier"
  /\ tasks' = <<>>
  /\ group_results' = <<>>
  /\ UNCHANGED <<industry_category, faults, started, recorded, riskVars, ofacVars, pureVars>>

\* lines 273-275: no probe is called industry_classification, so the
\* classification is made and stored
ClassifyIndustry ==
  /\ pc = "classify"
  /\ "industry_classification" \notin DOMAIN all_results
  /\ \E outcome \in {"classified", "classifier_error", "fallback", "failed"} :
       all_results' = DictPut(all_results, "industry_classification",
                              classify_industry(outcome))
  /\ pc' = "ip_scrapers"
  /\ UNCHANGED <<industry_category, tier_idx, tasks, group_results, faults, started,
                 recorded, riskVars, ofacVars, pureVars>>

\* lines 277-282, _extract_ip_from_results finding an address: one of the
\* data keys of a probe's dict is an IP field, and scrape_ipvoid is run on it
\* through run_scraper_safely
RunIpScrapers ==
  /\ pc = "ip_scrapers"
  /\ \E k \in DOMAIN all_results :
       "fields" \in DOMAIN all_results[k] /\ all_results[k].fields > 0
  /\ \E outcome \in ProbeOutcomes :
       /\ outcome # "dict" => faults < MaxFaults
       /\ faults' = IF outcome # "dict" THEN faults + 1 ELSE faults
       /\ all_results' = DictUpdate(all_results,
            "ipvoid_ip" :> run_scraper_safely("scrape_ipvoid", outcome))
  /\ pc' = "finalize"
  /\ UNCHANGED <<industry_category, tier_idx, tasks, group_results, started,
                 recorded, riskVars, ofacVars, pureVars>>

\* lines 278-279: _extract_ip_from_results returns None because no dict holds
\* an IP field, or _run_ip_based_scrapers returns {} because the IP scraper
\* cannot be imported
SkipIpScrapers ==
  /\ pc = "ip_scrapers"
  /\ pc' = "finalize"
  /\ UNCHANGED <<industry_category, tier_idx, tasks, group_results, all_results,
                 faults, started, recorded, riskVars, ofacVars, pureVars>>

\* lines 285-301: the final counters are written into coordination_metadata
\* and coordinate_full_assessment returns
FinalMetadata ==
  /\ pc = "finalize"
  /\ \E data_quality_score \in calculate_overall_data_quality(all_results),
        compliance_score \in calculate_compliance_score(all_results, industry_category) :
       all_results' =
         [all_results EXCEPT !["coordination_metadata"] =
            DictUpdate(@, final_metadata(all_results, industry_category,
                                         data_quality_score, compliance_score))]
  /\ pc' = "returned"
  /\ UNCHANGED <<industry_category, tier_idx, tasks, group_results, faults, started,
                 recorded, riskVars, ofacVars, pureVars>>

\* coordinate_scrapers, lines 668-670: the summary of the returned results is
\* generated and merged into them
GenerateSummary ==
  /\ pc = "returned"
  /\ \E data_quality_score \in calculate_overall_data_quality(all_results),
        compliance_score \in
          calculate_compliance_score(all_results,
            all_results["coordination_metadata"].industry_category) :
       all_results' = DictUpdate(all_results,
         generate_enhanced_assessment_summary(all_results, data_quality_score,
                                              compliance_score))
  /\ pc' = "done"
  /\ UNCHANGED <<industry_category, tier_idx, tasks, group_results, faults, started,
                 recorded, riskVars, ofacVars, pureVars>>

NextCoord ==
  \/ SubmitGroup \/ SkipGroup \/ FinishLoop
  \/ WorkerStart \/ TimeoutPasses \/ WorkerFinish
  \/ CollectResult \/ GroupCompleted \/ ReturnGroup
  \/ ClassifyIndustry \/ RunIpScrapers \/ SkipIpScrapers
  \/ FinalMetadata \/ GenerateSummary

SpecCoord == InitCoord /\ [][NextCoord]_vars


Meta(result) == result.scraper_metadata

IsTimeoutRecord(result) ==
  /\ HasError(result)
  /\ Meta(result).status # "success"
  /\ "error_type" \in DOMAIN Meta(result)
  /\ Meta(result).error_type = "timeout"

\* C1: when execute_scraper_group returns, the returned map holds exactly
\* one record per submitted probe: as many records as probes.
C1_OneRecordPerProbe ==
  pc = "sleeping" => Cardinality(DOMAIN group_results) = Len(tasks)

\* C5: no probe of a later priority level starts before every probe of
\* every earlier level has finished and been recorded.
C5_TiersInOrderNoOverlap ==
  \A s \in started :
    \A k \in 1..(s[1] - 1) :
      \A n \in 1..Len(get_industry_scraper_config(industry_category)[execution_order[k]]) :
        <<k, n>> \in recorded

\* the medium level's probe runs while the critical and high levels, which
\* both held probes, are complete
C5_Witness ==
  /\ <<3, 1>> \in started
  /\ tier_idx = 3
  /\ \E i \in 1..Len(tasks) : tasks[i].st = "running"
  /\ {s \in recorded : s[1] = 1} # {}
  /\ {s \in recorded : s[1] = 2} # {}

\* C6: when one probe of a group ran past its timeout and the others
\* succeeded, the group's map holds a timeout error record for the slow probe
\* and success records for the others.
C6_SlowProbeRecordedAsTimeout ==
  (/\ pc = "sleeping"
   /\ \E i \in 1..Len(tasks) :
        /\ tasks[i].overran
        /\ \A j \in (1..Len(tasks)) \ {i} :
             ~tasks[j].overran /\ tasks[j].outcome = "dict")
  => \A i \in 1..Len(tasks) :
       IF tasks[i].overran
       THEN IsTimeoutRecord(group_results[tasks[i].name])
       ELSE Meta(group_results[tasks[i].name]).status = "success"

\* C7: a group's execution is never left waiting with nothing able to
\* happen: while the orchestrating thread collects, either a result can
\* still arrive or a timeout can still pass, and after that it returns.
C7_GroupNeverBlockedForever ==
  pc = "collecting" => ENABLED NextCoord

\* C8: a probe that raised, returned None or returned a non-dict gives a
\* record whose metadata status is an error status and which carries an
\* error_type; only a dict result gives status success.
C8_NonDictIsErrorRecord ==
  \A i \in 1..Len(tasks) :
    tasks[i].st \in {"finished", "collected"} =>
      LET meta == Meta(Get(tasks[i].result))
      IN  /\ tasks[i].outcome \in {"raises", "raises_no_message", "none", "non_dict"} =>
               (meta.status # "success" /\ "error_type" \in DOMAIN meta)
          /\ meta.status = "success" => tasks[i].outcome \in {"dict", "error_dict"}

\* the keys of the merged results under which a probe's record is stored
ProbeKeys ==
  DOMAIN all_results \ {"coordination_metadata", "industry_classification",
                        "assessment_summary"}

AssessmentSummary == all_results["assessment_summary"]

C20_CountersCountProbes ==
  LET ok  == Cardinality({k \in ProbeKeys : "error" \notin DOMAIN all_results[k]})
      bad == Cardinality({k \in ProbeKeys : "error" \in DOMAIN all_results[k]})
  IN  /\ pc \in {"returned", "done"} =>
           LET metadata == all_results["coordination_metadata"]
           IN  /\ metadata.successful_scrapers = ok
               /\ metadata.failed_scrapers = bad
               /\ metadata.successful_scrapers + metadata.failed_scrapers
                    = Cardinality(ProbeKeys)
      /\ pc = "done" =>
           /\ AssessmentSummary.successful_scrapers = ok
           /\ AssessmentSummary.failed_scrapers = bad
           /\ AssessmentSummary.successful_scrapers + AssessmentSummary.failed_scrapers
                = Cardinality(ProbeKeys)

\* the keys of the merged results that hold evidence records: every key but
\* the run's own metadata and summary
RecordKeys == DOMAIN all_results \ {"coordination_metadata", "assessment_summary"}

\* C21: once a record is stored in the merged result map under a name, no
\* later step of the run (a later tier, the IP-based scrapers, the industry
\* classification) replaces or removes it.
C21_RecordsAppendOnly ==
  [][\A k \in RecordKeys :
       k \in DOMAIN all_results' /\ all_results'[k] = all_results[k]]_vars

\* the map the as_completed loop of lines 124-128 builds when the first n
\* futures complete in the order of their submission
RECURSIVE CollectedInSubmissionOrder(_, _)
CollectedInSubmissionOrder(ts, n) ==
  IF n = 0 THEN <<>>
  ELSE DictPut(CollectedInSubmissionOrder(ts, n - 1), ts[n].name, Get(ts[n].result))

\* C22: for fixed outcomes of a tier's probe invocations the map the tier
\* returns does not depend on the order in which they complete: it is the
\* map obtained when they complete in submission order.
C22_MapIsOrderIndependent ==
  pc = "sleeping" => group_results = CollectedInSubmissionOrder(tasks, Len(tasks))

\* C23: at most max_workers probes run at any moment, and every probe that is
\* running belongs to the tier being executed: the probes started in any
\* other tier have all finished and been recorded.
C23_PoolBoundedWithinTier ==
  /\ Cardinality(Running(tasks)) <= max_workers
  /\ Running(tasks) # {} => pc = "collecting"
  /\ \A s \in started : s[1] # tier_idx => s \in recorded

\* every pool thread runs a probe of the second tier while a further probe of
\* that tier waits in the queue
C23_Witness ==
  /\ tier_idx = 2
  /\ Cardinality(Running(tasks)) = max_workers
  /\ \E i \in 1..Len(tasks) : tasks[i].st = "queued"

\* C24: when the run's screening record is an error record, nothing in the
\* output reports the screening as completed or clear: the
\* ofac_screening_completed flags are false, ofac_status and sanctions_risk
\* are not CLEAR, and there is no "OFAC sanctions screening clear" finding.
C24_ErrorIsNeverReportedAsScreened ==
  (/\ pc \in {"returned", "done"}
   /\ "ofac_sanctions" \in DOMAIN all_results
   /\ "error" \in DOMAIN all_results["ofac_sanctions"])
  => /\ ~all_results["coordination_metadata"].ofac_screening_completed
     /\ pc = "done" =>
          /\ ~AssessmentSummary.compliance_status.ofac_screening_completed
          /\ AssessmentSummary.compliance_status.ofac_status # "CLEAR"
          /\ AssessmentSummary.compliance_status.sanctions_risk # "CLEAR"
          /\ ~InSeq("OFAC sanctions screening clear", AssessmentSummary.key_findings)

\* ------------------------------------------------------------------------
\* SpecMatch: one call of _screen_entity(company_name, domain, ofac_data) on
\* a dataset of SDN entries and alternative names.
\* ------------------------------------------------------------------------

AcmeCorpUpper == <<"A","C","M","E"," ","C","O","R","P">>

AcmeCorpDot == <<"A","c","m","e"," ","C","o","r","p",".">>

Acme == <<"A","c","m","e">>

AcmeWidgets == <<"A","c","m","e"," ","W","i","d","g","e","t","s">>

AcmeHoldings == <<"A","c","m","e"," ","H","o","l","d","i","n","g","s">>

Pax == <<"P","a","x">>

PaxRoma == <<"P","a","x"," ","R","o","m","a">>

\* the names that are screened and that the reference lists hold
Names == {AcmeCorp, AcmeCorpUpper, AcmeCorpDot, Acme, AcmeWidgets, AcmeHoldings,
          Pax, PaxRoma}

SdnEntry(i, name) == [uid |-> i, primary_name |-> name]

AltEntry(i, name) == [uid |-> i, alternative_name |-> name]

\* the SDN lists screened against: empty, one entry, and two two-entry lists
SdnLists ==
  {<<>>} \cup {<<SdnEntry(1, n)>> : n \in Names}
         \cup {<<SdnEntry(1, AcmeHoldings), SdnEntry(2, PaxRoma)>>,
               <<SdnEntry(1, Acme), SdnEntry(2, AcmeCorpUpper)>>}

\* the alternative-name lists screened against: empty or one entry
AltLists == {<<>>} \cup {<<AltEntry(1, n)>> : n \in Names}

\* the arguments of the call
InitMatch ==
  /\ RiskIdle /\ OfacIdle /\ CoordIdle /\ ValidatorIdle /\ LaterIdle
  /\ \E company_name \in Names, domain \in Domains,
        sdn_entries \in SdnLists, alternative_names \in AltLists :
       screen_input = Some([company_name |-> company_name, domain |-> domain,
                            ofac_data |-> [sdn_entries |-> sdn_entries,
                                           alternative_names |-> alternative_names]])
  /\ screen_output = None

\* self._screen_entity(company_name, domain, ofac_data)
ScreenEntity ==
  /\ screen_input # None
  /\ screen_output = None
  /\ screen_output' = Some(screen_entity(Get(screen_input).company_name,
                                         Get(screen_input).domain,
                                         Get(screen_input).ofac_data))
  /\ UNCHANGED <<screen_input, riskVars, ofacVars, coordVars, validatorVars, laterVars>>

NextMatch == ScreenEntity

SpecMatch == InitMatch /\ [][NextMatch]_vars

Screened == screen_output # None

In == Get(screen_input)

Out == Get(screen_output)

\* the normal form of a name: case-folded, legal-entity suffixes and
\* punctuation removed, outer whitespace stripped
Normalize(s) ==
  Strip(SelectSeq(RemoveSuffixWords(Lower(s)), LAMBDA c : c \notin {".", ","}))

\* C11: whenever the screened name and a name of the dataset (primary or
\* alternative) have the same normal form, the result holds an exact match
\* on that entry and the risk level is HIGH_RISK, whichever of the two names
\* is the one screened.
C11_NormalizedNamesMatchExactly ==
  Screened =>
    LET sdn == In.ofac_data.sdn_entries
        alt == In.ofac_data.alternative_names
    IN  /\ \A i \in 1..Len(sdn) :
             Normalize(In.company_name) = Normalize(sdn[i].primary_name) =>
               /\ \E r \in Out.exact_matches : r.list_type = "SDN" /\ r.index = i
               /\ Out.risk_level = "HIGH_RISK"
        /\ \A j \in 1..Len(alt) :
             Normalize(In.company_name) = Normalize(alt[j].alternative_name) =>
               /\ \E r \in Out.exact_matches :
                    r.list_type = "Alternative Names" /\ r.index = j
               /\ Out.risk_level = "HIGH_RISK"

\* the form in which two names are compared: lower-cased and stripped
Folded(s) == Strip(Lower(s))

Shorter(a, b) == IF Len(a) <= Len(b) THEN Len(a) ELSE Len(b)

\* C12: every partial match reported, on a primary or an alternative name,
\* is between two names of which one contains the other and of which the
\* shorter has at least 4 characters.
C12_PartialNeedsFourChars ==
  Screened =>
    \A r \in Out.partial_matches :
      LET a == Folded(r.search_term)
          b == Folded(r.matched_name)
      IN  /\ Contains(a, b) \/ Contains(b, a)
          /\ Shorter(a, b) >= 4

SearchTerms == prepare_search_terms(In.company_name, In.domain)

\* the result holds a record of type t for the pair (term, i-th entry of list l)
Reported(matches, term, i, l) ==
  \E r \in matches : r.search_term = term /\ r.index = i /\ r.list_type = l

\* at least half of the words of the term occur among the words of the name
HalfTheWords(term, name) ==
  LET tw == SplitSet(Folded(term))
      nw == SplitSet(Folded(name))
  IN  tw # {} /\ 2 * Cardinality(tw \cap nw) >= Cardinality(tw)

\* C13: for a search term and an SDN entry reported neither as an exact nor
\* as a partial match, a fuzzy match is reported exactly when the term has
\* words and at least half of them are words of the entry's name; a result
\* whose only matches are fuzzy ones has risk level LOW_RISK.
C13_FuzzyIsHalfTheWords ==
  Screened =>
    LET sdn == In.ofac_data.sdn_entries
    IN  /\ \A term \in SearchTerms, i \in 1..Len(sdn) :
             (/\ ~Reported(Out.exact_matches, term, i, "SDN")
              /\ ~Reported(Out.partial_matches, term, i, "SDN")) =>
               (Reported(Out.fuzzy_matches, term, i, "SDN")
                  <=> HalfTheWords(term, sdn[i].primary_name))
        /\ (/\ Out.fuzzy_matches # {}
            /\ Out.total_matches = Cardinality(Out.fuzzy_matches)) =>
              Out.risk_level = "LOW_RISK"

\* "Acme Widgets" screened, without a domain, against the one entry "Acme
\* Holdings": one fuzzy match and nothing else, LOW_RISK
C13_Witness ==
  /\ Screened
  /\ In.company_name = AcmeWidgets
  /\ In.domain = <<>>
  /\ In.ofac_data.sdn_entries = <<SdnEntry(1, AcmeHoldings)>>
  /\ In.ofac_data.alternative_names = <<>>
  /\ Cardinality(Out.fuzzy_matches) = 1
  /\ Out.total_matches = 1
  /\ Out.risk_level = "LOW_RISK"

\* C14: a search term that shares at least half of its words with an
\* alternative name, reported neither as an exact nor as a partial match on
\* it, gives a fuzzy match record on that alternative name, and the risk
\* level is not CLEAR.
C14_FuzzyOnAlternativeNames ==
  Screened =>
    LET alt == In.ofac_data.alternative_names
    IN  \A term \in SearchTerms, j \in 1..Len(alt) :
          (/\ ~Reported(Out.exact_matches, term, j, "Alternative Names")
           /\ ~Reported(Out.partial_matches, term, j, "Alternative Names")
           /\ HalfTheWords(term, alt[j].alternative_name)) =>
            /\ Reported(Out.fuzzy_matches, term, j, "Alternative Names")
            /\ Out.risk_level # "CLEAR"


\* ------------------------------------------------------------------------
\* DataValidator (backend/utils/data_validator.py)
\*
\* A Python value is a record with its type in field t: a bool, a str, an
\* int, None, or a dict (a function from keys to values). Scores are kept
\* in hundredths: 1.0 is 100, 0.3 is 30.
\* ------------------------------------------------------------------------

B(b) == [t |-> "bool", v |-> b]

S(str) == [t |-> "str", v |-> str]

I(n) == [t |-> "int", v |-> n]

D(dict) == [t |-> "dict", v |-> dict]

NoneV == [t |-> "none"]

\* the dict with no key
EmptyDict == [k \in {} |-> NoneV]

\* bool(value)
Truthy(value) ==
  CASE value.t = "none" -> FALSE
    [] value.t = "bool" -> value.v
    [] value.t = "str"  -> value.v # ""
    [] value.t = "int"  -> value.v # 0
    [] value.t = "dict" -> DOMAIN value.v # {}

\* value == text, for a str literal text
IsStr(value, text) == value.t = "str" /\ value.v = text

\* isinstance(value, (int, float)); a bool is an int in Python
IsNumeric(value) == value.t \in {"int", "bool"}

\* the number a numeric value stands for
NumericValue(value) == IF value.t = "bool" THEN (IF value.v THEN 1 ELSE 0) ELSE value.v

\* self.confidence_thresholds (_load_confidence_thresholds), in hundredths
confidence_thresholds ==
  [high_confidence |-> 80, medium_confidence |-> 50, low_confidence |-> 20,
   data_freshness_hours |-> 24, min_sources_for_validation |-> 2]

\* self.validation_rules["ssl_grade"]["valid_grades"]
valid_grades == {"A+", "A", "A-", "B", "C", "D", "E", "F", "T", "M"}

\* The regular expressions and substring tests of the validators, tabulated
\* on the strings the model's payloads hold.
\* _is_valid_date_string: re.search of the four date patterns
is_valid_date_string(date_str) == date_str \in {"2004-09-01", "09/01/2004"}

\* re.match(validation_rules["ip_address"]["pattern"], ip)
MatchesIpPattern(ip) == ip \in {"8.8.8.8", "23.227.38.65"}

\* country.split("(")[1].split(")")[0] when "(" is in country
CountryCode(country) ==
  CASE country = "Canada (CA)" -> "CA"
    [] country = "Canada (Can)" -> "Can"
    [] OTHER -> country

\* re.match(validation_rules["country_code"]["pattern"], country)
MatchesCountryPattern(country) == country \in {"US", "CA"}

\* any(expected in status.lower() for expected in expected_statuses)
IsExpectedStatus(status) == status \in {"Safe", "No unsafe content found", "Malicious"}

\* str(value).isdigit()
IsDigitString(value) ==
  CASE value.t = "int" -> value.v >= 0
    [] value.t = "str" -> value.v \in {"50", "1200"}
    [] OTHER -> FALSE

\* str(value): the str of a value that is one, a rendering otherwise
Str(value) ==
  CASE value.t = "str"  -> value.v
    [] value.t = "none" -> "None"
    [] value.t = "bool" -> IF value.v THEN "True" ELSE "False"
    [] OTHER -> "<repr>"

\* any(indicator in text.lower() for indicator in error_indicators)
HasErrorIndicator(text) ==
  text \in {"fetch_failed", "last_error", "Request timeout", "Connection failed"}

\* a validator's result dict
SourceResult(is_valid, errors, warnings) ==
  [is_valid |-> is_valid, errors |-> errors, warnings |-> warnings]

\* _validate_https_data
validate_https_data(data) ==
  LET missing == SelectSeq(<<"has_https", "protocol">>, LAMBDA field : field \notin DOMAIN data)
      not_bool == "has_https" \in DOMAIN data /\ data["has_https"].t # "bool"
      unexpected == /\ "protocol" \in DOMAIN data
                    /\ ~(\E p \in {"HTTP", "HTTPS", "None"} : IsStr(data["protocol"], p))
  IN  SourceResult(~not_bool,
        IF not_bool THEN << <<"has_https should be boolean">> >> ELSE <<>>,
        [i \in 1..Len(missing) |-> <<"Missing field", missing[i]>>]
          \o (IF unexpected THEN << <<"Unexpected protocol value">> >> ELSE <<>>))

\* _validate_whois_data
validate_whois_data(data) ==
  LET expected_fields == <<"domain_name", "registrar", "creation_date", "expiration_date">>
      missing_fields == SelectSeq(expected_fields, LAMBDA field : field \notin DOMAIN data)
      date_fields == <<"creation_date", "expiration_date", "updated_date">>
      bad_dates == SelectSeq(date_fields, LAMBDA field :
                     /\ field \in DOMAIN data
                     /\ Truthy(data[field])
                     /\ ~IsStr(data[field], "unknown")
                     /\ ~is_valid_date_string(Str(data[field])))
  IN  SourceResult(TRUE, <<>>,
        (IF 2 * Len(missing_fields) > Len(expected_fields)
         THEN << <<"Many missing WHOIS fields">> >> ELSE <<>>)
          \o [i \in 1..Len(bad_dates) |-> <<"Invalid date format in", bad_dates[i]>>])

\* _validate_ssl_data (report_summary a dict, or a str without "ssl_grade" in it)
validate_ssl_data(data) ==
  LET unexpected ==
        /\ "report_summary" \in DOMAIN data
        /\ data["report_summary"].t = "dict"
        /\ "ssl_grade" \in DOMAIN data["report_summary"].v
        /\ LET grade == data["report_summary"].v["ssl_grade"]
           IN  /\ ~(grade.t = "str" /\ grade.v \in valid_grades)
               /\ ~IsStr(grade, "unknown")
  IN  SourceResult(TRUE, <<>>,
        IF unexpected THEN << <<"Unexpected SSL grade">> >> ELSE <<>>)

\* _validate_social_data (data is a dict here, so the str branch is not taken;
\* social_presence a dict); the platforms are visited in the dict's order,
\* which only orders the warnings
validate_social_data(data) ==
  LET platforms == IF "social_presence" \in DOMAIN data
                   THEN data["social_presence"].v ELSE EmptyDict
      bad == {platform \in DOMAIN platforms :
                \/ platforms[platform].t # "dict"
                \/ "presence" \notin DOMAIN platforms[platform].v}
      order == CHOOSE seq \in [1..Cardinality(bad) -> bad] :
                 \A x \in bad : \E i \in 1..Cardinality(bad) : seq[i] = x
      not_numeric == /\ "employee_count" \in DOMAIN data
                     /\ ~IsStr(data["employee_count"], "unknown")
                     /\ ~IsDigitString(data["employee_count"])
  IN  SourceResult(TRUE, <<>>,
        [i \in 1..Len(order) |-> <<"Invalid format for", order[i]>>]
          \o (IF not_numeric THEN << <<"Employee count is not numeric">> >> ELSE <<>>))

\* _validate_security_data (Current Status a str)
validate_security_data(data) ==
  LET unexpected == /\ "Current Status" \in DOMAIN data
                    /\ ~IsExpectedStatus(data["Current Status"].v)
  IN  SourceResult(TRUE, <<>>,
        IF unexpected THEN << <<"Unexpected security status">> >> ELSE <<>>)

\* _validate_ip_data (ip_address and country_code strs)
validate_ip_data(data) ==
  LET bad_ip == /\ "ip_address" \in DOMAIN data
                /\ data["ip_address"].v # "unknown"
                /\ ~MatchesIpPattern(data["ip_address"].v)
      bad_country == /\ "country_code" \in DOMAIN data
                     /\ LET country == CountryCode(data["country_code"].v)
                        IN  country # "unknown" /\ ~MatchesCountryPattern(country)
      detections == IF "detections_count" \in DOMAIN data
                       /\ data["detections_count"].t = "dict"
                    THEN data["detections_count"].v ELSE EmptyDict
      counted == "detected" \in DOMAIN detections /\ "checks" \in DOMAIN detections
      not_ints == counted /\ ~(IsNumeric(detections["detected"])
                               /\ IsNumeric(detections["checks"]))
      exceeds == /\ counted /\ ~not_ints
                 /\ NumericValue(detections["detected"]) > NumericValue(detections["checks"])
  IN  SourceResult(~bad_ip,
        IF bad_ip THEN << <<"Invalid IP address format">> >> ELSE <<>>,
        (IF bad_country THEN << <<"Invalid country code format">> >> ELSE <<>>)
          \o (IF not_ints THEN << <<"Detection counts should be integers">> >> ELSE <<>>)
          \o (IF exceeds THEN << <<"Detected count exceeds total checks">> >> ELSE <<>>))

\* _validate_traffic_data: one warning at most for each traffic field present
validate_traffic_data(data) ==
  LET traffic_fields == <<"last_month_traffic", "previous_month_traffic", "year_ago_traffic">>
      present == SelectSeq(traffic_fields, LAMBDA field : field \in DOMAIN data)
      flagged == SelectSeq(present, LAMBDA field :
                   \/ ~IsNumeric(data[field])
                   \/ NumericValue(data[field]) < 0)
  IN  SourceResult(TRUE, <<>>,
        [i \in 1..Len(flagged) |->
           IF ~IsNumeric(data[flagged[i]])
           THEN <<"Traffic value should be numeric", flagged[i]>>
           ELSE <<"Negative traffic value in", flagged[i]>>])

\* _validate_legal_data
validate_legal_data(data) ==
  LET boolean_fields == <<"privacy_policy_present", "terms_of_service_present",
                          "is_accessible", "ssl_valid">>
      not_bool == SelectSeq(boolean_fields, LAMBDA field :
                    field \in DOMAIN data /\ data[field].t # "bool")
  IN  SourceResult(TRUE, <<>>,
        [i \in 1..Len(not_bool) |-> <<"should be boolean", not_bool[i]>>])

\* _validate_generic_data; the keys are visited in the dict's order, which
\* only orders the warnings
validate_generic_data(data) ==
  LET suspicious == {key \in DOMAIN data :
                       HasErrorIndicator(key) \/ HasErrorIndicator(Str(data[key]))}
      order == CHOOSE seq \in [1..Cardinality(suspicious) -> suspicious] :
                 \A x \in suspicious : \E i \in 1..Cardinality(suspicious) : seq[i] = x
      \* `not value and value != 0 and value != False`: 0 and False are spared
      empty_fields == {key \in DOMAIN data :
                         ~Truthy(data[key]) /\ ~IsNumeric(data[key])}
  IN  SourceResult(TRUE, <<>>,
        [i \in 1..Len(order) |-> <<"Potential error indicator in", order[i]>>]
          \o (IF 2 * Cardinality(empty_fields) > Cardinality(DOMAIN data)
              THEN << <<"Many empty fields">> >> ELSE <<>>))

\* The payloads on which a source validator raises instead of returning:
\* `"ssl_grade" in ssl_summary` on a value that is no container, .items() on
\* a social_presence that is no dict, .lower() on a status that is no str,
\* re.match and `"(" in country` on values that are no str.
source_validation_raises(source, data) ==
  CASE source = "ssl_org_report" ->
         "report_summary" \in DOMAIN data
           /\ data["report_summary"].t \notin {"dict", "str"}
    [] source = "social_presence" ->
         "social_presence" \in DOMAIN data /\ data["social_presence"].t # "dict"
    [] source = "google_safe_browsing" ->
         "Current Status" \in DOMAIN data /\ data["Current Status"].t # "str"
    [] source = "ipvoid" ->
         \/ "ip_address" \in DOMAIN data /\ data["ip_address"].t # "str"
         \/ "country_code" \in DOMAIN data /\ data["country_code"].t # "str"
    [] OTHER -> FALSE

\* a plausible slip: the cap for invalid payloads left out
calculate_confidence_score_NoCap(validation_result) ==
  LET error_penalty   == Len(validation_result.errors) * 30
      warning_penalty == Len(validation_result.warnings) * 10
  IN  IF 100 - error_penalty - warning_penalty < 0 THEN 0
      ELSE 100 - error_penalty - warning_penalty

\* _calculate_confidence_score. The penalties are multiples of 0.1, so
\* round(confidence, 2) returns the two-decimal value itself.
calculate_confidence_score(validation_result) ==
  LET base_score      == 100
      error_penalty   == Len(validation_result.errors) * 30
      warning_penalty == Len(validation_result.warnings) * 10
      confidence      == IF base_score - error_penalty - warning_penalty < 0 THEN 0
                         ELSE base_score - error_penalty - warning_penalty
  IN  IF ~validation_result.is_valid /\ confidence > 30 THEN 30 ELSE confidence

\* _determine_data_quality
determine_data_quality(confidence_score) ==
  IF confidence_score >= confidence_thresholds.high_confidence THEN "high"
  ELSE IF confidence_score >= confidence_thresholds.medium_confidence THEN "medium"
  ELSE "low"

\* the source_validations table of validate_scraped_data_structure
source_validation(source, data) ==
  CASE source = "https_check"          -> validate_https_data(data)
    [] source = "whois_data"           -> validate_whois_data(data)
    [] source = "ssl_org_report"       -> validate_ssl_data(data)
    [] source = "social_presence"      -> validate_social_data(data)
    [] source = "google_safe_browsing" -> validate_security_data(data)
    [] source = "ipvoid"               -> validate_ip_data(data)
    [] source = "traffic_volume"       -> validate_traffic_data(data)
    [] source = "privacy_terms"        -> validate_legal_data(data)
    [] OTHER                           -> validate_generic_data(data)

\* validate_scraped_data_structure raises on (data, source)
validate_raises(data, source) ==
  /\ data.t = "dict"
  /\ "error" \notin DOMAIN data.v
  /\ source_validation_raises(source, data.v)

\* validate_scraped_data_structure, where it returns
validate_scraped_data_structure(data, source) ==
  LET validation_result == [is_valid |-> TRUE, errors |-> <<>>, warnings |-> <<>>,
                            confidence_score |-> 100, data_quality |-> "high"]
  IN  IF data.t # "dict"
      THEN [validation_result EXCEPT
              !.is_valid = FALSE,
              !.errors = << <<"Data is not a dictionary">> >>,
              !.confidence_score = 0]
      ELSE IF "error" \in DOMAIN data.v
      THEN [validation_result EXCEPT
              !.is_valid = FALSE,
              !.errors = << <<"Scraper reported error">> >>,
              !.confidence_score = 0]
      ELSE LET checked == source_validation(source, data.v)
               updated == [validation_result EXCEPT
                             !.is_valid = checked.is_valid,
                             !.errors = checked.errors,
                             !.warnings = checked.warnings]
               scored  == [updated EXCEPT
                             !.confidence_score = calculate_confidence_score(updated)]
           IN  [scored EXCEPT
                  !.data_quality = determine_data_quality(scored.confidence_score)]

\* a plausible slip: every verdict counted in the divisor, valid or not
accumulate_CountsInvalid(acc, validation) ==
  IF validation.is_valid
  THEN [total |-> acc.total + validation.confidence_score, valid |-> acc.valid + 1]
  ELSE [total |-> acc.total, valid |-> acc.valid + 1]

\* cross_validate_data, lines 357-359: total_confidence and valid_sources
\* after one verdict
accumulate(acc, validation) ==
  IF validation.is_valid
  THEN [total |-> acc.total + validation.confidence_score, valid |-> acc.valid + 1]
  ELSE acc

\* `"domain" in key.lower()`, on the keys of the model's payloads
IsDomainKey(key) == key \in {"domain_name", "domain"}

\* `"." in value`, on the strs of the model's payloads
HasDot(text) == text \in {"shopify.com", "acme.io", "8.8.8.8", "23.227.38.65", "999.1.1"}

\* the sources of a list of (source, data) items
Sources(items) == {items[i][1] : i \in 1..Len(items)}

\* scraped_data[source]
Lookup(items, source) == items[CHOOSE i \in 1..Len(items) : items[i][1] = source][2]

\* _perform_cross_validation_checks
perform_cross_validation_checks(items) ==
  LET dicts == {i \in 1..Len(items) : items[i][2].t = "dict"}
      unique_domains ==
        UNION {{items[i][2].v[key].v :
                  key \in {k \in DOMAIN items[i][2].v :
                             /\ IsDomainKey(k)
                             /\ items[i][2].v[k].t = "str"
                             /\ HasDot(items[i][2].v[k].v)}} : i \in dicts}
      unique_ips == {items[i][2].v["ip_address"] :
                       i \in {j \in dicts : "ip_address" \in DOMAIN items[j][2].v}}
      security_sources == {"google_safe_browsing", "nordvpn_malicious", "ssltrust_blacklist"}
      reporting == {source \in security_sources \cap Sources(items) :
                      /\ Lookup(items, source).t = "dict"
                      /\ \/ "Current Status" \in DOMAIN Lookup(items, source).v
                         \/ "is_malicious_nordvpn" \in DOMAIN Lookup(items, source).v}
      status(source) ==
        LET data == Lookup(items, source).v
        IN  IF "Current Status" \in DOMAIN data THEN data["Current Status"]
            ELSE IF Truthy(data["is_malicious_nordvpn"]) THEN S("malicious")
            ELSE S("safe")
      conflicting_statuses == {status(source) : source \in reporting}
  IN  (IF Cardinality(unique_domains) > 1
       THEN << <<"Multiple domains found in data">> >> ELSE <<>>)
      \o (IF Cardinality(unique_ips) > 1
          THEN << <<"Multiple IP addresses found">> >> ELSE <<>>)
      \o (IF Cardinality(reporting) > 1 /\ Cardinality(conflicting_statuses) > 1
          THEN << <<"Conflicting security statuses">> >> ELSE <<>>)

\* _generate_recommendations
generate_recommendations(summary, validations) ==
  LET failed_sources == {source \in DOMAIN validations : ~validations[source].is_valid}
      low_confidence_sources ==
        {source \in DOMAIN validations :
           validations[source].confidence_score < confidence_thresholds.medium_confidence}
  IN  (IF summary.overall_confidence < confidence_thresholds.medium_confidence
       THEN << <<"Consider re-running scrapers to improve data quality">> >> ELSE <<>>)
      \o (IF failed_sources # {}
          THEN << <<"Review failed sources", failed_sources>> >> ELSE <<>>)
      \o (IF low_confidence_sources # {}
          THEN << <<"Validate low-confidence sources", low_confidence_sources>> >> ELSE <<>>)
      \o (IF summary.cross_validation_notes # <<>>
          THEN << <<"Investigate cross-validation conflicts">> >> ELSE <<>>)
      \o (IF summary.sources_validated < confidence_thresholds.min_sources_for_validation
          THEN << <<"Collect data from additional sources for better validation">> >>
          ELSE <<>>)


\* ------------------------------------------------------------------------
\* SpecValidator: one call of DataValidator.cross_validate_data(scraped_data)
\* ------------------------------------------------------------------------

\* the largest number of items of scraped_data
MaxSources == 3

\* a dict literal of one, two and three keys
D1(k1, v1) == D(k1 :> v1)

D2(k1, v1, k2, v2) == D((k1 :> v1) @@ (k2 :> v2))

D3(k1, v1, k2, v2, k3, v3) == D((k1 :> v1) @@ (k2 :> v2) @@ (k3 :> v3))

\* what the scrapers may have stored under each source of scraped_data
Payloads(source) ==
  CASE source = "https_check" ->
         { D2("has_https", B(TRUE), "protocol", S("HTTPS")),
           D1("has_https", S("yes")),
           D1("protocol", S("FTP")),
           D2("error", S("Scraper returned None"), "scraper", S("check_https")) }
    [] source = "whois_data" ->
         { D((("domain_name" :> S("shopify.com")) @@ ("registrar" :> S("MarkMonitor")))
             @@ (("creation_date" :> S("2004-09-01")) @@ ("expiration_date" :> S("unknown")))),
           D3("creation_date", S("soon"), "expiration_date", S("later"),
              "updated_date", S("never")),
           D1("updated_date", S("never")),
           NoneV }
    [] source = "ssl_org_report" ->
         { D1("report_summary", D1("ssl_grade", S("A"))),
           D1("report_summary", D1("ssl_grade", S("Z"))),
           S("timeout") }
    [] source = "social_presence" ->
         { D2("social_presence",
              D2("linkedin", D1("presence", B(TRUE)), "twitter", S("n/a")),
              "employee_count", S("many")),
           D1("employee_count", I(50)) }
    [] source = "google_safe_browsing" ->
         { D1("Current Status", S("Safe")),
           D1("Current Status", S("Pending")) }
    [] source = "ipvoid" ->
         { D2("ip_address", S("8.8.8.8"), "country_code", S("Canada (CA)")),
           D3("ip_address", S("999.1.1"), "country_code", S("Canada (Can)"),
              "detections_count", D2("detected", I(5), "checks", I(3))),
           D1("ip_address", I(8)) }
    [] source = "traffic_volume" ->
         { D1("last_month_traffic", I(1000)),
           D2("last_month_traffic", S("n/a"), "year_ago_traffic", I(-5)) }
    [] source = "privacy_terms" ->
         { D1("privacy_policy_present", B(TRUE)),
           D2("privacy_policy_present", S("yes"), "ssl_valid", S("no")) }
    [] source = "tranco_ranking" ->
         { D2("domain", S("acme.io"), "rank", I(120)),
           D2("last_error", S(""), "rank", NoneV) }
    [] source = "nordvpn_malicious" ->
         { D1("is_malicious_nordvpn", B(TRUE)) }
    [] source = "domain" ->
         { S("shopify.com") }

\* the keys scraped_data may hold: nine scraper names, of which tranco_ranking
\* and nordvpn_malicious have no validator of their own, and the "domain" key
SourceNames ==
  {"https_check", "whois_data", "ssl_org_report", "social_presence",
   "google_safe_browsing", "ipvoid", "traffic_volume", "privacy_terms",
   "tranco_ranking", "nordvpn_malicious", "domain"}

\* the (source, data) items
Items == UNION {{<<source, data>> : data \in Payloads(source)} : source \in SourceNames}

\* the arguments tried: up to MaxSources items with different keys, in any order
ScrapedDataSets ==
  {items \in UNION {[1..n -> Items] : n \in 0..MaxSources} :
     \A i, j \in 1..Len(items) : i # j => items[i][1] # items[j][1]}

\* cross_validate_data, lines 336-347: the call's arguments and its locals
InitValidator ==
  /\ RiskIdle /\ OfacIdle /\ CoordIdle /\ MatchIdle /\ LaterIdle
  /\ scraped_data \in ScrapedDataSets
  /\ cv_pc = "loop"
  /\ next_item = 1
  /\ source_validations = <<>>
  /\ total_confidence = 0
  /\ valid_sources = 0
  /\ validation_summary = None

CurrentSource == scraped_data[next_item][1]

CurrentData == scraped_data[next_item][2]

MetadataKeys == {"collection_timestamp", "domain", "industry_category"}

\* lines 350-352: a key that is no source is passed over
SkipMetadataKey ==
  /\ cv_pc = "loop"
  /\ next_item <= Len(scraped_data)
  /\ CurrentSource \in MetadataKeys
  /\ next_item' = next_item + 1
  /\ UNCHANGED <<scraped_data, cv_pc, source_validations, total_confidence,
                 valid_sources, validation_summary, riskVars, ofacVars, coordVars,
                 matchVars, laterVars>>

\* lines 354-359: one source is validated and counted
ValidateSource ==
  /\ cv_pc = "loop"
  /\ next_item <= Len(scraped_data)
  /\ CurrentSource \notin MetadataKeys
  /\ ~validate_raises(CurrentData, CurrentSource)
  /\ LET validation == validate_scraped_data_structure(CurrentData, CurrentSource)
         acc == accumulate([total |-> total_confidence, valid |-> valid_sources],
                           validation)
     IN  /\ source_validations' = DictPut(source_validations, CurrentSource, validation)
         /\ total_confidence' = acc.total
         /\ valid_sources' = acc.valid
  /\ next_item' = next_item + 1
  /\ UNCHANGED <<scraped_data, cv_pc, validation_summary, riskVars, ofacVars,
                 coordVars, matchVars, laterVars>>

\* line 354: a source validator raises, and the exception leaves
\* cross_validate_data, which catches nothing
ValidatorRaises ==
  /\ cv_pc = "loop"
  /\ next_item <= Len(scraped_data)
  /\ CurrentSource \notin MetadataKeys
  /\ validate_raises(CurrentData, CurrentSource)
  /\ cv_pc' = "raised"
  /\ UNCHANGED <<scraped_data, next_item, source_validations, total_confidence,
                 valid_sources, validation_summary, riskVars, ofacVars, coordVars,
                 matchVars, laterVars>>

\* lines 361-381: the summary is built and returned
ReturnSummary ==
  /\ cv_pc = "loop"
  /\ next_item > Len(scraped_data)
  /\ \E overall_confidence \in (IF valid_sources > 0
                                THEN RoundedMeans(total_confidence, valid_sources)
                                ELSE {0}) :
       LET summary == [overall_confidence |-> overall_confidence,
                       data_quality |-> determine_data_quality(overall_confidence),
                       sources_validated |-> valid_sources,
                       validation_details |-> source_validations,
                       cross_validation_notes |->
                         perform_cross_validation_checks(scraped_data)]
       IN  validation_summary' = Some(
             [overall_confidence |-> summary.overall_confidence,
              data_quality |-> summary.data_quality,
              sources_validated |-> summary.sources_validated,
              validation_details |-> summary.validation_details,
              cross_validation_notes |-> summary.cross_validation_notes,
              recommended_actions |->
                generate_recommendations(summary, source_validations)])
  /\ cv_pc' = "returned"
  /\ UNCHANGED <<scraped_data, next_item, source_validations, total_confidence,
                 valid_sources, riskVars, ofacVars, coordVars, matchVars, laterVars>>

NextValidator == SkipMetadataKey \/ ValidateSource \/ ValidatorRaises \/ ReturnSummary

SpecValidator == InitValidator /\ [][NextValidator]_vars

\* the verdicts returned so far
Verdicts == {source_validations[source] : source \in DOMAIN source_validations}

\* C15: every verdict's confidence lies between 0 and 1, and a verdict that
\* is not valid has a confidence of at most 0.3.
C15_ConfidenceInRange ==
  \A verdict \in Verdicts :
    /\ verdict.confidence_score >= 0
    /\ verdict.confidence_score <= 100
    /\ ~verdict.is_valid => verdict.confidence_score <= 30

\* a payload with one structural error and one warning, found invalid by
\* its source validator and capped at 0.3
C15_Witness ==
  /\ "https_check" \in DOMAIN source_validations
  /\ LET verdict == source_validations["https_check"]
     IN  /\ ~verdict.is_valid
         /\ Len(verdict.errors) = 1
         /\ Len(verdict.warnings) = 1
         /\ verdict.confidence_score = 30

\* max(0, 1.0 - 0.3 e - 0.1 w), capped at 0.3 for a verdict that is not valid
ExpectedConfidence(verdict) ==
  LET raw     == 100 - 30 * Len(verdict.errors) - 10 * Len(verdict.warnings)
      floored == IF raw < 0 THEN 0 ELSE raw
  IN  IF ~verdict.is_valid /\ floored > 30 THEN 30 ELSE floored

\* C16: every verdict with e errors and w warnings has the confidence
\* max(0, 1.0 - 0.3 e - 0.1 w), capped at 0.3 when it is not valid, the
\* verdicts on payloads that are no dict or hold an error key included.
C16_ConfidenceFormula ==
  \A verdict \in Verdicts : verdict.confidence_score = ExpectedConfidence(verdict)

\* C17: every verdict's quality class is the class of its confidence: high
\* from 0.8, medium from 0.5, low from 0.2, poor below 0.2.
C17_QualityFromConfidence ==
  \A verdict \in Verdicts :
    verdict.data_quality =
      (IF verdict.confidence_score >= 80 THEN "high"
       ELSE IF verdict.confidence_score >= 50 THEN "medium"
       ELSE IF verdict.confidence_score >= 20 THEN "low"
       ELSE "poor")

Summary == Get(validation_summary)

ValidVerdictSources == {source \in DOMAIN source_validations :
                          source_validations[source].is_valid}

RECURSIVE SumConfidence(_)
SumConfidence(sources) ==
  IF sources = {} THEN 0
  ELSE LET source == CHOOSE x \in sources : TRUE
       IN  source_validations[source].confidence_score
             + SumConfidence(sources \ {source})

\* C18 as stated: overall_confidence is the arithmetic mean of the
\* confidence of the valid verdicts, and 0 when there is none.
C18_OverallIsExactMean ==
  cv_pc = "returned" =>
    IF ValidVerdictSources = {} THEN Summary.overall_confidence = 0
    ELSE Summary.overall_confidence * Cardinality(ValidVerdictSources)
           = SumConfidence(ValidVerdictSources)

\* C18, amended: overall_confidence is the arithmetic mean of the confidence
\* of exactly the valid verdicts rounded to two decimals (it differs from
\* the mean by at most 0.005), verdicts that are not valid entering neither
\* the sum nor the divisor, and it is 0 when no verdict is valid.
C18_OverallIsRoundedMean ==
  cv_pc = "returned" =>
    /\ Summary.sources_validated = Cardinality(ValidVerdictSources)
    /\ IF ValidVerdictSources = {} THEN Summary.overall_confidence = 0
       ELSE 2 * Abs(Summary.overall_confidence * Cardinality(ValidVerdictSources)
                      - SumConfidence(ValidVerdictSources))
              <= Cardinality(ValidVerdictSources)

\* two valid verdicts (1.0 and 0.8) and an error payload: the summary
\* reports 0.9 over two sources
C18_Witness ==
  /\ cv_pc = "returned"
  /\ Cardinality(DOMAIN source_validations) = 3
  /\ Cardinality(ValidVerdictSources) = 2
  /\ SumConfidence(ValidVerdictSources) = 180
  /\ Summary.overall_confidence = 90
  /\ \E source \in DOMAIN source_validations :
       source_validations[source].confidence_score = 0

\* ------------------------------------------------------------------------
\* KYBErrorHandler (error_handler.py)
\* ------------------------------------------------------------------------

EarlierIdle ==
  /\ RiskIdle /\ OfacIdle /\ CoordIdle /\ MatchIdle /\ ValidatorIdle
  /\ EntryIdle /\ RoutesIdle /\ CollectIdle

\* __init__: self.max_history = 100
max_history == 100

\* _should_retry_scraper: the network errors that may be temporary
retry_error_types ==
  {"ConnectionError", "TimeoutError", "HTTPError", "RequestException",
   "WebDriverException"}

\* sum(counts.values()) for a dict from error class to count
RECURSIVE SumValues(_)
SumValues(counts) ==
  IF DOMAIN counts = {} THEN 0
  ELSE LET k == CHOOSE x \in DOMAIN counts : TRUE
       IN  counts[k] + SumValues([x \in DOMAIN counts \ {k} |-> counts[x]])

\* list[-n:] for n > 0
LastEntries(list, n) ==
  IF Len(list) > n THEN SubSeq(list, Len(list) - n + 1, Len(list)) ELSE list

\* a plausible slip: the history is cut to its oldest entries (list[:n])
maintain_history_limit_KeepsOldest(history) ==
  IF Len(history) > max_history THEN SubSeq(history, 1, max_history) ELSE history

\* _track_error, lines 189-191
maintain_history_limit(history) ==
  IF Len(history) > max_history THEN LastEntries(history, max_history) ELSE history

\* _track_error, lines 174-181: the counts after one more error of the class
count_error(counts, component, error_class) ==
  LET of_component == IF component \in DOMAIN counts THEN counts[component] ELSE <<>>
      count == IF error_class \in DOMAIN of_component THEN of_component[error_class] ELSE 0
  IN  DictPut(counts, component, DictPut(of_component, error_class, count + 1))

\* a plausible slip: the error count of the scraper is not consulted
should_retry_scraper_IgnoresCount(counts, scraper_name, error_class) ==
  error_class \in retry_error_types

\* _should_retry_scraper
should_retry_scraper(counts, scraper_name, error_class) ==
  IF scraper_name \in DOMAIN counts /\ SumValues(counts[scraper_name]) > 5
  THEN FALSE
  ELSE error_class \in retry_error_types

\* _has_fallback_scraper
has_fallback_scraper(scraper_name) ==
  scraper_name \in {"whois_data", "godaddy_whois", "ssl_org_report", "traffic_volume",
                    "nordvpn_malicious"}

\* _get_appropriate_status_code
get_appropriate_status_code(error_class) ==
  CASE error_class \in {"ValueError", "KeyError", "ValidationError"} -> 400
    [] error_class = "FileNotFoundError" -> 404
    [] error_class = "PermissionError" -> 403
    [] error_class = "ConnectionError" -> 503
    [] error_class = "TimeoutError" -> 504
    [] OTHER -> 500

\* sum(sum(error_counts.values()) for error_counts in self.error_counts.values())
RECURSIVE TotalErrors(_)
TotalErrors(counts) ==
  IF DOMAIN counts = {} THEN 0
  ELSE LET k == CHOOSE x \in DOMAIN counts : TRUE
       IN  SumValues(counts[k]) + TotalErrors([x \in DOMAIN counts \ {k} |-> counts[x]])

\* get_error_statistics (most_common_errors, a ranking of the same counts, is
\* left out)
get_error_statistics(counts, history) ==
  [total_errors |-> TotalErrors(counts),
   error_counts_by_component |-> counts,
   recent_errors |-> LastEntries(history, 10),
   error_rate_by_component |-> [c \in DOMAIN counts |-> SumValues(counts[c])]]

\* the body shared by the four handle_* methods: the call is served at the
\* next clock tick, _track_error counts the error and appends it to the
\* history, and the response built from the state after tracking is returned
TrackAndRespond(component, error_info, response) ==
  LET info == error_info @@ ("timestamp" :> handler_clock + 1)
      entry == [component |-> component, error_info |-> info]
  IN  /\ handler_clock' = handler_clock + 1
      /\ error_counts' = count_error(error_counts, component, info.error_class)
      /\ error_history' = maintain_history_limit(Append(error_history, entry))
      /\ handled' = Append(handled, entry)
      /\ handler_response' = Some(response @@ ("timestamp" :> handler_clock + 1))
      /\ UNCHANGED earlierVars

\* handle_scraper_error(scraper_name, error) with error.__class__.__name__
\* = error_class
handle_scraper_error(scraper_name, error_class) ==
  TrackAndRespond(scraper_name,
    [error_type |-> "scraper_error", scraper_name |-> scraper_name,
     error_class |-> error_class],
    [scraper |-> scraper_name, error_type |-> "scraper_error",
     error_class |-> error_class,
     retry_recommended |->
       should_retry_scraper(count_error(error_counts, scraper_name, error_class),
                            scraper_name, error_class),
     fallback_available |-> has_fallback_scraper(scraper_name)])

\* handle_assessment_error(error, domain, assessment_type)
handle_assessment_error(error_class, assessment_type) ==
  TrackAndRespond("assessment",
    [error_type |-> "assessment_error", assessment_type |-> assessment_type,
     error_class |-> error_class],
    [assessment_type |-> assessment_type, error_type |-> "assessment_error",
     fallback_to_standard |-> assessment_type = "enhanced"])

\* handle_api_error(error, endpoint)
handle_api_error(error_class, endpoint) ==
  TrackAndRespond("api",
    [error_type |-> "api_error", endpoint |-> endpoint, error_class |-> error_class],
    [endpoint |-> endpoint, error_type |-> "api_error",
     status_code |-> get_appropriate_status_code(error_class)])

\* handle_validation_error(error, data_source, validation_type)
handle_validation_error(error_class, data_source) ==
  TrackAndRespond("validation",
    [error_type |-> "validation_error", data_source |-> data_source,
     error_class |-> error_class],
    [data_source |-> data_source, error_type |-> "validation_error",
     continue_processing |-> TRUE])

\* reset_error_statistics
reset_error_statistics ==
  /\ error_counts' = <<>>
  /\ error_history' = <<>>
  /\ handled' = <<>>
  /\ handler_response' = None
  /\ handler_clock' = handler_clock + 1
  /\ UNCHANGED earlierVars

\* the scraper names and error classes of the calls
ScraperNames == {"whois_data", "ssl_org_report"}

ErrorClasses == {"TimeoutError", "ValueError"}

InitHandler == EarlierIdle /\ HandlerIdle

\* ------------------------------------------------------------------------
\* SpecRetry: a sequence of handle_scraper_error and reset_error_statistics
\* calls on one handler.
\* ------------------------------------------------------------------------

\* how many calls the handler serves
MaxRetryCalls == 8

ScraperFails ==
  /\ handler_clock < MaxRetryCalls
  /\ \E scraper_name \in ScraperNames, error_class \in ErrorClasses :
       handle_scraper_error(scraper_name, error_class)

StatisticsReset ==
  /\ handler_clock < MaxRetryCalls
  /\ handled # <<>>
  /\ reset_error_statistics

NextRetry == ScraperFails \/ StatisticsReset

SpecRetry == InitHandler /\ [][NextRetry]_vars

\* how many of the errors tracked since the last reset came from a component
RECURSIVE ErrorsOf(_, _)
ErrorsOf(component, entries) ==
  IF entries = <<>> THEN 0
  ELSE (IF Head(entries).component = component THEN 1 ELSE 0)
       + ErrorsOf(component, Tail(entries))

Response == Get(handler_response)

\* C25: a handle_scraper_error call returns retry_recommended = false when
\* more than 5 errors have been recorded for its scraper name since the last
\* reset (the error it handles is recorded before the answer is made), and
\* otherwise returns true exactly when the error class is one of the
\* retryable network error classes; errors recorded for other scraper names
\* do not count.
C25_RetryFollowsErrorCount ==
  handler_response # None =>
    (Response.retry_recommended
       <=> /\ ErrorsOf(Response.scraper, handled) <= 5
           /\ Response.error_class \in retry_error_types)

\* a seventh error of a scraper name, of a retryable class, is answered with
\* retry_recommended = false while errors of another name were recorded too
C25_Witness ==
  /\ handler_response # None
  /\ ErrorsOf(Response.scraper, handled) > 5
  /\ Response.error_class \in retry_error_types
  /\ ~Response.retry_recommended
  /\ \E i \in 1..Len(handled) : handled[i].component # Response.scraper

\* ------------------------------------------------------------------------
\* SpecHistory: a long sequence of calls of the four handle_* methods,
\* get_error_statistics and reset_error_statistics on one handler. The first
\* WarmUpCalls calls are the same scraper error; after them every call is
\* possible.
\* ------------------------------------------------------------------------

WarmUpCalls == max_history - 2

\* how many calls the handler serves
MaxErrors == 103

WarmUp ==
  /\ handler_clock < WarmUpCalls
  /\ handle_scraper_error("whois_data", "TimeoutError")

ScraperError ==
  /\ handler_clock >= WarmUpCalls /\ handler_clock < MaxErrors
  /\ \E error_class \in ErrorClasses : handle_scraper_error("ssl_org_report", error_class)

AssessmentError ==
  /\ handler_clock >= WarmUpCalls /\ handler_clock < MaxErrors
  /\ handle_assessment_error("ValueError", "enhanced")

ApiError ==
  /\ handler_clock >= WarmUpCalls /\ handler_clock < MaxErrors
  /\ handle_api_error("KeyError", "/assess")

ValidationError ==
  /\ handler_clock >= WarmUpCalls /\ handler_clock < MaxErrors
  /\ handle_validation_error("ValueError", "whois_data")

ResetStatistics ==
  /\ handler_clock >= WarmUpCalls /\ handler_clock < MaxErrors
  /\ reset_error_statistics

\* get_error_statistics changes nothing of the handler
GetErrorStatistics ==
  /\ handler_clock >= WarmUpCalls /\ handler_clock < MaxErrors
  /\ handler_clock' = handler_clock + 1
  /\ handler_response' = Some(get_error_statistics(error_counts, error_history))
  /\ UNCHANGED <<error_counts, error_history, handled, earlierVars>>

NextHistory ==
  \/ WarmUp \/ ScraperError \/ AssessmentError \/ ApiError \/ ValidationError
  \/ ResetStatistics \/ GetErrorStatistics

SpecHistory == InitHandler /\ [][NextHistory]_vars

\* C30: error_history holds at most max_history entries, which are the most
\* recent errors handled since the last reset in their order of arrival, and
\* total_errors of get_error_statistics is the number of errors handled since
\* the last reset, however many of them the history has dropped.
C30_HistoryBoundedTotalsExact ==
  /\ Len(error_history) <= max_history
  /\ error_history = LastEntries(handled, max_history)
  /\ get_error_statistics(error_counts, error_history).total_errors = Len(handled)
  /\ (handler_response # None /\ "total_errors" \in DOMAIN Response)
       => Response.total_errors = Len(handled)

\* more errors than the history holds were handled since the last reset,
\* from more than one component, and the statistics were read
C30_Witness ==
  /\ Len(handled) > max_history
  /\ Len(error_history) = max_history
  /\ \E i \in 1..Len(error_history) : error_history[i].component # "whois_data"
  /\ handler_response # None /\ "total_errors" \in DOMAIN Response
  /\ Response.total_errors > max_history

\* ------------------------------------------------------------------------
\* Assessment endpoints (assessment_routes.py)
\* ------------------------------------------------------------------------

beforeRoutesVars ==
  <<riskVars, ofacVars, coordVars, matchVars, validatorVars, handlerVars, entryVars,
    collectVars>>

\* validate_domain_input on the domains that reach it here: "x" is shorter
\* than min_length, the others pass DataValidator.validate_domain
RequestedDomains == {"shopify.com", "x"}

validate_domain_input(domain) == domain \in {"shopify.com", "acme.com"}

\* the company names requested; the second is shorter than 2 characters
RequestedCompanies == {"Acme", "A"}

\* the guessed domain of create_company_assessment, line 160
GuessedDomain(company_name) == IF company_name = "Acme" THEN "acme.com" ELSE "a.com"

\* the entry of lines 101-111 and 175-185; subject_key is "domain" or
\* "company_name"
InitialEntry(assessment_id, subject_key, subject, assessment_type) ==
  (subject_key :> subject) @@
  [assessment_id |-> assessment_id, assessment_type |-> assessment_type,
   status |-> "initializing", progress |-> 0, started_at |-> "timestamp",
   current_step |-> "Preparing assessment...", estimated_completion |-> None,
   result |-> None]

\* the update of the try blocks' first statement and of the later progress
\* steps of run_enhanced_domain_assessment
running_update(entry, progress, current_step) ==
  DictUpdate(entry, [status |-> "running", progress |-> progress,
                     current_step |-> current_step])

progress_update(entry, progress, current_step) ==
  DictUpdate(entry, [progress |-> progress, current_step |-> current_step])

\* a plausible slip: the completion update leaves the result out
completed_update_WithoutResult(entry, result) ==
  DictUpdate(entry, [status |-> "completed", progress |-> 100,
                     current_step |-> "Assessment completed successfully",
                     completed_at |-> "timestamp",
                     total_runtime_seconds |-> "runtime"])

\* the "Mark as completed" update, lines 321-330, 364-373 and 405-414
completed_update(entry, result) ==
  DictUpdate(entry, [status |-> "completed", progress |-> 100,
                     current_step |-> "Assessment completed successfully",
                     result |-> Some(result), completed_at |-> "timestamp",
                     total_runtime_seconds |-> "runtime"])

\* a plausible slip: the failure update keeps the progress reached
failed_update_KeepsProgress(entry) ==
  DictUpdate(entry, [status |-> "failed",
                     current_step |-> "Assessment failed", error |-> "exception",
                     failed_at |-> "timestamp"])

\* the update of the except blocks, lines 336-342, 377-383 and 418-424
failed_update(entry) ==
  DictUpdate(entry, [status |-> "failed", progress |-> 0,
                     current_step |-> "Assessment failed", error |-> "exception",
                     failed_at |-> "timestamp"])

\* risk_assessment.get_risk_assessment: the dict it returns when it does not
\* raise (lines 787-823 add these keys to whatever the AI answered)
get_risk_assessment(company_name) ==
  [company_name |-> company_name, assessment_type |-> "amazing",
   risk_level |-> "LOW"]

\* get_enhanced_risk_assessment(domain). assessment_routes.py imports it from
\* a package core that the repository does not hold; the function of this name
\* in risk_assessment.py, line 734, returns get_risk_assessment(domain).
get_enhanced_risk_assessment(domain) == get_risk_assessment(domain)

\* not progress_data["result"]: None, or an empty dict
Falsy(result) == result = None \/ Get(result) = <<>>

\* get_assessment_result: the dict returned, or the HTTPException raised
get_assessment_result(progress, assessment_id) ==
  IF assessment_id \notin DOMAIN progress
  THEN [raised |-> "HTTPException", status_code |-> 404]
  ELSE LET progress_data == progress[assessment_id]
       IN  IF progress_data.status # "completed"
           THEN [raised |-> "HTTPException", status_code |-> 400]
           ELSE IF "result" \notin DOMAIN progress_data \/ Falsy(progress_data.result)
           THEN [raised |-> "HTTPException", status_code |-> 500]
           ELSE [assessment_id |-> assessment_id, status |-> "completed",
                 result |-> Get(progress_data.result),
                 completion_time |-> GetOr(progress_data, "completed_at", None),
                 total_runtime |-> GetOr(progress_data, "total_runtime_seconds", None)]

\* ------------------------------------------------------------------------
\* SpecRoutes: requests to the assessment endpoints and the background tasks
\* they start, interleaved at the tasks' awaits.
\* ------------------------------------------------------------------------

\* how many assessments are created
MaxAssessments == 2

\* str(uuid.uuid4()): an id no entry has yet
AssessmentIds == 1..MaxAssessments

NewId == Cardinality(DOMAIN assessment_progress) + 1

InitRoutes ==
  /\ RiskIdle /\ OfacIdle /\ CoordIdle /\ MatchIdle /\ ValidatorIdle
  /\ HandlerIdle /\ EntryIdle /\ CollectIdle
  /\ assessment_progress = <<>>
  /\ background_tasks = <<>>
  /\ route_response = None
  /\ enhanced_available \in BOOLEAN
  /\ standard_available \in BOOLEAN
  /\ last_writer = None

\* lines 100-120 and 174-191: the entry is stored and the task added
Started(assessment_id, subject_key, subject, assessment_type, task) ==
  /\ assessment_progress' =
       DictPut(assessment_progress, assessment_id,
               InitialEntry(assessment_id, subject_key, subject, assessment_type))
  /\ background_tasks' =
       DictPut(background_tasks, assessment_id,
               [task |-> task, subject |-> subject, at |-> "start"])
  /\ last_writer' = None
  /\ route_response' = None
  /\ UNCHANGED <<enhanced_available, standard_available, beforeRoutesVars>>

\* create_domain_assessment(domain, background_tasks, assessment_type) past
\* its checks; a request that fails them raises and changes nothing
domain_assessment(domain, requested_type) ==
  LET assessment_type ==
        IF requested_type = "enhanced" /\ ~enhanced_available
        THEN "standard" ELSE requested_type
  IN  /\ validate_domain_input(domain)
      /\ enhanced_available \/ standard_available
      /\ Started(NewId, "domain", domain, assessment_type,
                 IF assessment_type = "enhanced"
                 THEN "run_enhanced_domain_assessment"
                 ELSE "run_standard_domain_assessment")

CreateDomainAssessment ==
  /\ NewId \in AssessmentIds
  /\ \E domain \in RequestedDomains, assessment_type \in {"enhanced", "standard"} :
       domain_assessment(domain, assessment_type)

\* create_company_assessment
CreateCompanyAssessment ==
  /\ NewId \in AssessmentIds
  /\ \E company_name \in RequestedCompanies, assessment_type \in {"enhanced", "standard"} :
       /\ company_name # "A"
       /\ IF assessment_type = "enhanced" /\ enhanced_available
          THEN domain_assessment(GuessedDomain(company_name), "enhanced")
          ELSE /\ standard_available
               /\ Started(NewId, "company_name", company_name, assessment_type,
                          "run_standard_company_assessment")

\* a task writes into assessment_progress[assessment_id] and moves on
TaskWrites(assessment_id, entry, at) ==
  /\ assessment_progress' = [assessment_progress EXCEPT ![assessment_id] = entry]
  /\ background_tasks' = [background_tasks EXCEPT ![assessment_id].at = at]
  /\ last_writer' = Some(assessment_id)
  /\ route_response' = None
  /\ UNCHANGED <<enhanced_available, standard_available, beforeRoutesVars>>

TaskAt(assessment_id, task, at) ==
  /\ assessment_id \in DOMAIN background_tasks
  /\ background_tasks[assessment_id].task = task
  /\ background_tasks[assessment_id].at = at

\* run_enhanced_domain_assessment, lines 272-303: the five progress updates,
\* each followed by an await
RunEnhancedProgress ==
  \E assessment_id \in DOMAIN background_tasks :
    LET entry == assessment_progress[assessment_id]
        Is(at) == TaskAt(assessment_id, "run_enhanced_domain_assessment", at)
    IN  \/ Is("start") /\ TaskWrites(assessment_id,
             running_update(entry, 10, "Classifying industry"), "collect")
        \/ Is("collect") /\ TaskWrites(assessment_id,
             progress_update(entry, 30, "Collecting data"), "security")
        \/ Is("security") /\ TaskWrites(assessment_id,
             progress_update(entry, 50, "Running security checks"), "business")
        \/ Is("business") /\ TaskWrites(assessment_id,
             progress_update(entry, 70, "Analyzing business presence"), "ai")
        \/ Is("ai") /\ TaskWrites(assessment_id,
             progress_update(entry, 85, "Running AI-powered risk assessment"), "run")

\* run_enhanced_domain_assessment, lines 305-342: the executor call returns
\* and the entry is marked completed, or something raised and the except
\* block marks it failed
RunEnhancedFinish ==
  \E assessment_id \in DOMAIN background_tasks, raises \in BOOLEAN :
    /\ TaskAt(assessment_id, "run_enhanced_domain_assessment", "run")
    /\ TaskWrites(assessment_id,
         IF raises THEN failed_update(assessment_progress[assessment_id])
         ELSE completed_update(assessment_progress[assessment_id],
                get_enhanced_risk_assessment(background_tasks[assessment_id].subject)),
         "returned")

\* run_standard_domain_assessment, lines 347-357
RunStandardDomainStart ==
  \E assessment_id \in DOMAIN background_tasks :
    /\ TaskAt(assessment_id, "run_standard_domain_assessment", "start")
    /\ TaskWrites(assessment_id,
         running_update(assessment_progress[assessment_id], 30,
                        "Running standard assessment"), "run")

\* run_standard_domain_assessment, lines 359-383
RunStandardDomainFinish ==
  \E assessment_id \in DOMAIN background_tasks, raises \in BOOLEAN :
    /\ TaskAt(assessment_id, "run_standard_domain_assessment", "run")
    /\ TaskWrites(assessment_id,
         IF raises THEN failed_update(assessment_progress[assessment_id])
         ELSE completed_update(assessment_progress[assessment_id],
                DictUpdate(get_risk_assessment("Shopify"),
                           [domain |-> background_tasks[assessment_id].subject,
                            assessment_type |-> "standard_from_domain"])),
         "returned")

\* run_standard_company_assessment, lines 394-400
RunStandardCompanyStart ==
  \E assessment_id \in DOMAIN background_tasks :
    /\ TaskAt(assessment_id, "run_standard_company_assessment", "start")
    /\ TaskWrites(assessment_id,
         running_update(assessment_progress[assessment_id], 50,
                        "Running assessment"), "run")

\* run_standard_company_assessment, lines 402-424
RunStandardCompanyFinish ==
  \E assessment_id \in DOMAIN background_tasks, raises \in BOOLEAN :
    /\ TaskAt(assessment_id, "run_standard_company_assessment", "run")
    /\ TaskWrites(assessment_id,
         IF raises THEN failed_update(assessment_progress[assessment_id])
         ELSE completed_update(assessment_progress[assessment_id],
                get_risk_assessment(background_tasks[assessment_id].subject)),
         "returned")

\* get_assessment_progress: progress_data is the stored entry itself, so the
\* runtime_seconds of lines 220-223 is written into the store
GetAssessmentProgress ==
  \E assessment_id \in DOMAIN assessment_progress :
    /\ assessment_progress[assessment_id].status \in {"running", "initializing"}
    /\ assessment_progress' =
         [assessment_progress EXCEPT ![assessment_id] =
            DictPut(@, "runtime_seconds", "runtime")]
    /\ last_writer' = None
    /\ route_response' = None
    /\ UNCHANGED <<background_tasks, enhanced_available, standard_available,
                   beforeRoutesVars>>

\* get_assessment_result, for an id that is known or unknown
GetAssessmentResult ==
  \E assessment_id \in AssessmentIds :
    /\ route_response' = Some([assessment_id |-> assessment_id,
                               entry_before |->
                                 IF assessment_id \in DOMAIN assessment_progress
                                 THEN Some(assessment_progress[assessment_id])
                                 ELSE None,
                               returned |-> get_assessment_result(assessment_progress,
                                                                  assessment_id)])
    /\ last_writer' = None
    /\ UNCHANGED <<assessment_progress, background_tasks, enhanced_available,
                   standard_available, beforeRoutesVars>>

NextRoutes ==
  \/ CreateDomainAssessment \/ CreateCompanyAssessment
  \/ RunEnhancedProgress \/ RunEnhancedFinish
  \/ RunStandardDomainStart \/ RunStandardDomainFinish
  \/ RunStandardCompanyStart \/ RunStandardCompanyFinish
  \/ GetAssessmentProgress \/ GetAssessmentResult

SpecRoutes == InitRoutes /\ [][NextRoutes]_vars

TerminalStatuses == {"completed", "failed"}

StatusMoves ==
  {<<"initializing", "running">>, <<"running", "completed">>,
   <<"initializing", "failed">>, <<"running", "failed">>}

\* what one step does to the entry of assessment_id
EntryStepIsLawful(assessment_id) ==
  LET old == assessment_progress[assessment_id]
      new == assessment_progress'[assessment_id]
  IN  /\ assessment_id \in DOMAIN assessment_progress'
      /\ old.status = new.status \/ <<old.status, new.status>> \in StatusMoves
      /\ old.status \in TerminalStatuses =>
           /\ new.status = old.status
           /\ new.progress = old.progress
           /\ new.result = old.result
      /\ new.status \notin TerminalStatuses => new.progress >= old.progress
      /\ (last_writer' # None /\ Get(last_writer') # assessment_id) => new = old

ProgressMatchesStatus ==
  \A assessment_id \in DOMAIN assessment_progress :
    LET entry == assessment_progress[assessment_id]
    IN  /\ entry.status \in {"initializing", "running"} \cup TerminalStatuses
        /\ entry.status = "initializing" => entry.progress = 0
        /\ entry.status = "completed" => entry.progress = 100
        /\ entry.status = "failed" => entry.progress = 0

\* C27: every entry's status moves initializing -> running -> completed, or
\* to failed from initializing or running; a completed or failed entry keeps
\* its status, progress and result; progress does not decrease while the
\* entry is not terminal, is 100 when completed and 0 when failed; and a step
\* of a background task changes no entry but that of its own assessment id.
C27_StatusLifecycle ==
  /\ []ProgressMatchesStatus
  /\ [][\A assessment_id \in DOMAIN assessment_progress :
          EntryStepIsLawful(assessment_id)]_vars

\* two concurrent assessments, the enhanced one completed through all of its
\* progress steps, the other failed, the last step taken by a task
C27_Witness ==
  /\ Cardinality(DOMAIN assessment_progress) = 2
  /\ \E a, b \in DOMAIN assessment_progress :
       /\ assessment_progress[a].status = "completed"
       /\ assessment_progress[a].progress = 100
       /\ background_tasks[a].task = "run_enhanced_domain_assessment"
       /\ assessment_progress[b].status = "failed"
       /\ assessment_progress[b].progress = 0
       /\ "runtime_seconds" \in DOMAIN assessment_progress[b]
  /\ last_writer # None

\* the last result request, and the entry it was about
Answered == Get(route_response)

AnsweredKnown == Answered.entry_before # None

AnsweredEntry == Get(Answered.entry_before)

AnsweredCompleted == AnsweredKnown /\ AnsweredEntry.status = "completed"

\* C28: get_assessment_result returns a result only for a completed
\* assessment; for every completed assessment it returns the result stored in
\* the entry and not an error; for an unknown, initializing, running or failed
\* assessment it raises; and the request leaves assessment_progress unchanged.
C28_ResultOnlyWhenCompleted ==
  /\ [](route_response # None =>
         /\ "result" \in DOMAIN Answered.returned <=> AnsweredCompleted
         /\ AnsweredCompleted =>
              /\ "raised" \notin DOMAIN Answered.returned
              /\ AnsweredEntry.result # None
              /\ Answered.returned.result = Get(AnsweredEntry.result)
              /\ Answered.returned.result # <<>>
         /\ ~AnsweredCompleted =>
              /\ "raised" \in DOMAIN Answered.returned
              /\ Answered.returned.status_code =
                   IF AnsweredKnown THEN 400 ELSE 404)
  /\ [][route_response' # None => assessment_progress' = assessment_progress]_vars

\* a completed assessment's result was returned while the other assessment
\* is failed, and the store still holds the entry it held at the request
C28_Witness ==
  /\ route_response # None
  /\ AnsweredCompleted
  /\ "result" \in DOMAIN Answered.returned
  /\ Answered.returned.result.company_name \in {"Acme", "Shopify", "shopify.com"}
  /\ \E other \in DOMAIN assessment_progress :
       /\ other # Answered.assessment_id
       /\ assessment_progress[other].status = "failed"
  /\ assessment_progress[Answered.assessment_id] = AnsweredEntry

\* ------------------------------------------------------------------------
\* collect_amazing_data (risk_assessment.py)
\* ------------------------------------------------------------------------

beforeCollectVars ==
  <<riskVars, ofacVars, coordVars, matchVars, validatorVars, handlerVars, entryVars,
    routesVars>>

foundation_scrapers == <<"https_check", "whois_data", "privacy_terms">>

\* security_scrapers, with the OFAC entry appended when OFAC_AVAILABLE
security_scrapers(with_ofac) ==
  <<"google_safe_browsing", "ssl_org_report", "ipvoid">>
    \o (IF with_ofac THEN <<"ofac_sanctions">> ELSE <<>>)

business_scrapers == <<"social_presence", "tranco_ranking">>

\* the scrapers of phases 1 to 3 in the order they run
ScraperRun(with_ofac) ==
  foundation_scrapers \o security_scrapers(with_ofac) \o business_scrapers

\* the dict of lines 155-162
InitialCollection ==
  [collection_timestamp |-> "timestamp", domain |-> "shopify.com",
   scrapers_attempted |-> 0, scrapers_successful |-> 0, scrapers_failed |-> 0,
   collection_quality |-> "amazing"]

\* what scraper_func(domain) does: returns a dict without the text "error", a
\* dict whose text holds "error", an empty or None value, a value that is not
\* a dict, or raises
ScraperOutcomes == {"dict", "error_dict", "empty", "not_a_dict", "raises"}

Increment(scraped, counter) == [scraped EXCEPT ![counter] = @ + 1]

\* a plausible slip: an exception is reported but not counted as a failure
run_scraper_with_amazing_quality_RaiseUncounted(scraped, scraper_name, outcome) ==
  LET attempted == Increment(scraped, "scrapers_attempted")
  IN  IF outcome = "raises"
      THEN DictPut(attempted, scraper_name,
                   [error |-> "exception", scraper |-> scraper_name])
      ELSE IF outcome = "dict"
      THEN DictPut(Increment(attempted, "scrapers_successful"), scraper_name,
                   [fields |-> 3, _scraper_metadata |-> scraper_name])
      ELSE DictPut(Increment(attempted, "scrapers_failed"), scraper_name,
                   [error |-> "Low quality data", scraper |-> scraper_name])

\* run_scraper_with_amazing_quality and the assignment of what it returns to
\* scraped_data[scraper_name]
run_scraper_with_amazing_quality(scraped, scraper_name, outcome) ==
  LET attempted == Increment(scraped, "scrapers_attempted")
  IN  IF outcome = "raises"
      THEN DictPut(Increment(attempted, "scrapers_failed"), scraper_name,
                   [error |-> "exception", scraper |-> scraper_name])
      ELSE IF outcome = "dict"
      THEN DictPut(Increment(attempted, "scrapers_successful"), scraper_name,
                   [fields |-> 3, _scraper_metadata |-> scraper_name])
      ELSE DictPut(Increment(attempted, "scrapers_failed"), scraper_name,
                   [error |-> "Low quality data", scraper |-> scraper_name])

\* phase 4: the text extraction fails, the classifier returns a
\* classification, the dict it returns after an error of its own, an empty
\* value, or one of the two raises
ClassificationOutcomes ==
  {"content_failed", "classified", "classifier_error", "empty", "raises"}

\* lines 250-277
industry_classification(scraped, outcome) ==
  LET attempted == Increment(scraped, "scrapers_attempted")
  IN  CASE outcome = "raises" ->
             DictPut(Increment(attempted, "scrapers_failed"),
                     "industry_classification", [error |-> "exception"])
        [] outcome = "content_failed" ->
             DictPut(Increment(attempted, "scrapers_failed"),
                     "industry_classification",
                     [error |-> "Failed to extract website content"])
        [] outcome = "empty" ->
             DictPut(Increment(attempted, "scrapers_failed"),
                     "industry_classification", [error |-> "Classification failed"])
        [] outcome = "classifier_error" ->
             DictPut(Increment(attempted, "scrapers_successful"),
                     "industry_classification",
                     [error |-> "exception", mcc_code |-> "7399", category |-> "other"])
        [] OTHER ->
             DictPut(Increment(attempted, "scrapers_successful"),
                     "industry_classification",
                     [mcc_code |-> "5734", category |-> "software_saas"])

\* success_rate as a whole percentage, rounded down
SuccessRate(successful, total) ==
  (successful * 100) \div (IF total > 1 THEN total ELSE 1)

\* lines 279-303; the quality levels compare the rate with 80 and 60, which
\* the whole percentage decides as the exact rate does
collection_summary(scraped, with_ofac) ==
  LET total_scrapers == scraped.scrapers_attempted
      successful_scrapers == scraped.scrapers_successful
      failed_scrapers == scraped.scrapers_failed
      success_rate == SuccessRate(successful_scrapers, total_scrapers)
  IN  DictPut(scraped, "collection_summary",
        [total_scrapers |-> total_scrapers,
         successful_scrapers |-> successful_scrapers,
         failed_scrapers |-> failed_scrapers,
         quality_level |-> IF success_rate >= 80 THEN "EXCELLENT"
                           ELSE IF success_rate >= 60 THEN "GOOD"
                           ELSE "ACCEPTABLE",
         ofac_included |-> with_ofac,
         scrapers_list |-> DOMAIN scraped])

\* ------------------------------------------------------------------------
\* SpecCollect: one call of collect_amazing_data, a step per scraper, with
\* every outcome of every scraper and of the classification phase.
\* ------------------------------------------------------------------------

InitCollect ==
  /\ RiskIdle /\ OfacIdle /\ CoordIdle /\ MatchIdle /\ ValidatorIdle
  /\ HandlerIdle /\ EntryIdle /\ RoutesIdle
  /\ collection = <<>>
  /\ collect_pc = "start"
  /\ collect_returned = None
  /\ scrapers_available \in BOOLEAN
  /\ ofac_available \in BOOLEAN

\* lines 147-149
ReturnEmpty ==
  /\ collect_pc = "start"
  /\ ~scrapers_available
  /\ collect_returned' = Some(<<>>)
  /\ collect_pc' = "returned"
  /\ UNCHANGED <<collection, scrapers_available, ofac_available, beforeCollectVars>>

\* lines 155-162
StartCollection ==
  /\ collect_pc = "start"
  /\ scrapers_available
  /\ collection' = InitialCollection
  /\ collect_pc' = "scrapers"
  /\ UNCHANGED <<collect_returned, scrapers_available, ofac_available,
                 beforeCollectVars>>

\* how many scrapers of the run have stored their record
ScrapersRun ==
  Cardinality({i \in 1..Len(ScraperRun(ofac_available)) :
                 ScraperRun(ofac_available)[i] \in DOMAIN collection})

\* one turn of the loops of phases 1 to 3
RunScraper ==
  /\ collect_pc = "scrapers"
  /\ ScrapersRun < Len(ScraperRun(ofac_available))
  /\ \E outcome \in ScraperOutcomes :
       collection' =
         run_scraper_with_amazing_quality(
           collection, ScraperRun(ofac_available)[ScrapersRun + 1], outcome)
  /\ UNCHANGED <<collect_pc, collect_returned, scrapers_available, ofac_available,
                 beforeCollectVars>>

\* phase 4, the summary and the return
ClassifyAndReturn ==
  /\ collect_pc = "scrapers"
  /\ ScrapersRun = Len(ScraperRun(ofac_available))
  /\ \E outcome \in ClassificationOutcomes :
       /\ collection' =
            collection_summary(industry_classification(collection, outcome),
                               ofac_available)
       /\ collect_returned' = Some(collection')
  /\ collect_pc' = "returned"
  /\ UNCHANGED <<scrapers_available, ofac_available, beforeCollectVars>>

NextCollect == ReturnEmpty \/ StartCollection \/ RunScraper \/ ClassifyAndReturn

SpecCollect == InitCollect /\ [][NextCollect]_vars

\* the value returned, read as get_risk_assessment reads it (a missing
\* counter is 0)
Returned == Get(collect_returned)

ReturnedCounter(counter) == GetOr(Returned, counter, 0)

\* the records of phases 1 to 3 in the value returned
ScraperKeys ==
  {k \in DOMAIN Returned : \E i \in 1..Len(ScraperRun(TRUE)) : ScraperRun(TRUE)[i] = k}

\* C29: when collect_amazing_data returns, scrapers_attempted equals
\* scrapers_successful plus scrapers_failed, whatever each scraper and the
\* classification phase did; every scraper that ran and the classification
\* are counted once, and the summary repeats the same three numbers.
C29_AttemptsAreSuccessesPlusFailures ==
  collect_returned # None =>
    /\ ReturnedCounter("scrapers_attempted") =
         ReturnedCounter("scrapers_successful") + ReturnedCounter("scrapers_failed")
    /\ Returned # <<>> =>
         /\ Returned.scrapers_attempted = Cardinality(ScraperKeys) + 1
         /\ Returned.scrapers_failed >=
              Cardinality({k \in ScraperKeys : "error" \in DOMAIN Returned[k]})
         /\ Returned.collection_summary.total_scrapers = Returned.scrapers_attempted
         /\ Returned.collection_summary.successful_scrapers =
              Returned.scrapers_successful
         /\ Returned.collection_summary.failed_scrapers = Returned.scrapers_failed

\* a return with the OFAC scraper included, at least one scraper that raised,
\* one that succeeded, and the classifier's own error counted as a success
C29_Witness ==
  /\ collect_returned # None
  /\ Returned # <<>>
  /\ "ofac_sanctions" \in DOMAIN Returned
  /\ Returned.scrapers_attempted = Len(ScraperRun(TRUE)) + 1
  /\ "error" \in DOMAIN Returned.ofac_sanctions
  /\ Returned.ofac_sanctions.error = "exception"
  /\ "error" \notin DOMAIN Returned.https_check
  /\ "error" \in DOMAIN Returned.industry_classification
  /\ Returned.scrapers_successful = 2
  /\ Returned.scrapers_failed = 8

====
